---------------------------- MODULE Spec2Model ----------------------------
(***************************************************************************)
(* Model of the valuation core of quant-lab: the synthetic-rating WACC     *)
(* calculator (logic/valuation.py and logic/engine.py), the two            *)
(* DamodaranGinzuValuation projectors, the factor ranking of               *)
(* logic/model_engine.py over the tables logic/data_pipeline.py fills, and *)
(* the two watchlist runs that value one ticker after the other.           *)
(*                                                                         *)
(* Real numbers are exact rationals <<numerator, denominator>> in lowest   *)
(* terms with a positive denominator.  A division by zero, which raises    *)
(* ZeroDivisionError in Python, yields the value Err; Err propagates       *)
(* through every later operation, as the exception aborts the function.    *)
(***************************************************************************)
EXTENDS Integers, Sequences, FiniteSets, TLC

VARIABLES
    wpc,    \* position of the WACC call: "idle", "fetched", "returned" or "raised"
    wcall,  \* the ticker figures handed to calculate_synthetic_wacc, and which copy
    wret,   \* the (wacc, spread, icr, rating) tuple it returned
    dpc,    \* position of the projector: "new", "built", "loop", "discount",
            \* "terminal", "done" or "raised"
    inst,   \* the DamodaranGinzuValuation instance: which copy, and its fields
    loc,    \* run_valuation's locals
    df,     \* the projection rows computed so far, one per year
    result, \* what run_valuation returned
    rpc,          \* position of the ranking side: "pipeline", "loaded", "momentum"
                  \* or "ranked"
    tickers,      \* the tickers data_pipeline.py has still to fetch
    fundamentals, \* the fundamentals table, in row order
    prices,       \* the prices table: per ticker its closes, oldest first
    df_mom,       \* the frame calculate_momentum returned
    df_final,     \* the quant_rankings frame of run_quant_model
    ppc,     \* position of the watchlist run: "idle", "engine" or "valuation"
             \* (in the loop of that file), "saved" or "crashed"
    watch,   \* the tickers of the watchlist still to come
    results, \* the rows appended so far
    seen,    \* the tickers gone through, and whether the projector valued each
    lastRun, \* the loop body's locals for the ticker gone through last
    earlier, \* what an earlier call of run_valuation on the same inputs returned
    orders,   \* the order list written by orders.py or engine.generate_orders
    dbpc,     \* the portfolio database: "absent", or "ready" once init_db has run
    holdings, \* the rows of the holdings table
    history   \* the rows of the history table, oldest first

wvars == <<wpc, wcall, wret>>
dvars == <<dpc, inst, loc, df, result>>
rvars == <<rpc, tickers, fundamentals, prices, df_mom, df_final>>
pvars == <<ppc, watch, results, seen, lastRun>>
vars == <<wpc, wcall, wret, dpc, inst, loc, df, result,
          rpc, tickers, fundamentals, prices, df_mom, df_final,
          ppc, watch, results, seen, lastRun, earlier,
          orders, dbpc, holdings, history>>
bvars == <<dbpc, holdings, history>>

\* what the steps of one part of the program leave alone
besidesWacc == <<dvars, rvars, pvars, earlier, orders, bvars>>
besidesDcf == <<wvars, rvars, pvars, earlier, orders, bvars>>
besidesRank == <<wvars, dvars, pvars, earlier, orders, bvars>>
besidesRun == <<wvars, dvars, rvars, earlier, orders, bvars>>
besidesOrders == <<wvars, dvars, rvars, earlier, bvars>>
besidesDb == <<wvars, dvars, rvars, pvars, earlier, orders>>

-----------------------------------------------------------------------------
(* Arithmetic *)

Err == <<0, 0>>
Missing == <<0, -1>>

Abs(x) == IF x < 0 THEN -x ELSE x

RECURSIVE GCD(_, _)
GCD(a, b) == IF b = 0 THEN a ELSE GCD(b, a % b)

R(n, d) ==
    IF d = 0 THEN Err
    ELSE LET g == GCD(Abs(n), Abs(d))
             s == IF d < 0 THEN -1 ELSE 1
         IN  <<s * (n \div g), Abs(d) \div g>>

Zero == <<0, 1>>
One == <<1, 1>>

RNeg(a) == IF a = Err THEN Err ELSE <<-a[1], a[2]>>

RAdd(a, b) ==
    IF a = Err \/ b = Err THEN Err
    ELSE LET g == GCD(a[2], b[2])
         IN  R(a[1] * (b[2] \div g) + b[1] * (a[2] \div g), (a[2] \div g) * b[2])

RSub(a, b) == RAdd(a, RNeg(b))

RMul(a, b) ==
    IF a = Err \/ b = Err THEN Err
    ELSE LET g1 == GCD(Abs(a[1]), b[2])
             g2 == GCD(Abs(b[1]), a[2])
         IN  R((a[1] \div g1) * (b[1] \div g2), (a[2] \div g2) * (b[2] \div g1))

RDiv(a, b) ==
    IF a = Err \/ b = Err THEN Err
    ELSE IF b[1] = 0 THEN Err
    ELSE RMul(a, IF b[1] < 0 THEN <<-b[2], -b[1]>> ELSE <<b[2], b[1]>>)

RLt(a, b) ==
    LET g == GCD(a[2], b[2])
    IN  a[1] * (b[2] \div g) < b[1] * (a[2] \div g)
RGt(a, b) == RLt(b, a)
RLe(a, b) == ~RLt(b, a)

\* round(x, 1): the nearest multiple of 1/10, a tie going to the even one
Round1(x) ==
    IF x = Err THEN Err
    ELSE LET whole == x[1] \div x[2]
             tenths == (10 * (x[1] % x[2])) \div x[2]
             r == (10 * (x[1] % x[2])) % x[2]
             q == 10 * whole + tenths
             up == 2 * r > x[2] \/ (2 * r = x[2] /\ q % 2 = 1)
         IN  R(IF up THEN q + 1 ELSE q, 10)

\* round(x, 2): the nearest multiple of 1/100, a tie going to the even one
Round2(x) ==
    IF x = Err THEN Err
    ELSE LET whole == x[1] \div x[2]
             tenths == (10 * (x[1] % x[2])) \div x[2]
             rest == (10 * (x[1] % x[2])) % x[2]
             hundredths == (10 * rest) \div x[2]
             r == (10 * rest) % x[2]
             q == 100 * whole + 10 * tenths + hundredths
             up == 2 * r > x[2] \/ (2 * r = x[2] /\ q % 2 = 1)
         IN  R(IF up THEN q + 1 ELSE q, 100)

-----------------------------------------------------------------------------
(* calculate_synthetic_wacc *)

SentinelICR == R(100, 1)

\* Faulty variant: the guard tests interest_expense # 0, so a negative interest
\* expense is divided by instead of giving the sentinel.
InterestCoverage_NonZeroGuard(ebit, interest_expense) ==
    IF interest_expense # Zero THEN RDiv(ebit, interest_expense)
    ELSE SentinelICR

\* Faulty variant: the guard tests interest_expense >= 0, so a zero interest expense
\* is divided by.
InterestCoverage_GuardGE(ebit, interest_expense) ==
    IF RLe(Zero, interest_expense) THEN RDiv(ebit, interest_expense)
    ELSE SentinelICR

\* 1. Interest Coverage Ratio
InterestCoverage(ebit, interest_expense) ==
    IF RGt(interest_expense, Zero) THEN RDiv(ebit, interest_expense)
    ELSE SentinelICR

Tier(s, r) == [spread |-> R(s, 10000), rating |-> r]

\* Faulty variant: the spreads of the BB+ and BB tiers are exchanged.
ValuationSpreadLookup_BBSwapped(icr) ==
    IF RGt(icr, R(85, 10)) THEN Tier(69, "AAA")
    ELSE IF RGt(icr, R(65, 10)) THEN Tier(85, "AA")
    ELSE IF RGt(icr, R(55, 10)) THEN Tier(107, "A+")
    ELSE IF RGt(icr, R(425, 100)) THEN Tier(118, "A")
    ELSE IF RGt(icr, R(3, 1)) THEN Tier(133, "A-")
    ELSE IF RGt(icr, R(25, 10)) THEN Tier(171, "BBB")
    ELSE IF RGt(icr, R(225, 100)) THEN Tier(277, "BB+")
    ELSE IF RGt(icr, R(2, 1)) THEN Tier(231, "BB")
    ELSE IF RGt(icr, R(175, 100)) THEN Tier(349, "B+")
    ELSE IF RGt(icr, R(15, 10)) THEN Tier(416, "B")
    ELSE IF RGt(icr, R(125, 100)) THEN Tier(577, "B-")
    ELSE IF RGt(icr, R(8, 10)) THEN Tier(827, "CCC")
    ELSE IF RGt(icr, R(65, 100)) THEN Tier(1347, "CC")
    ELSE Tier(2000, "D")

\* 2. Default spread lookup, valuation.py (14 tiers)
ValuationSpreadLookup(icr) ==
    IF RGt(icr, R(85, 10)) THEN Tier(69, "AAA")
    ELSE IF RGt(icr, R(65, 10)) THEN Tier(85, "AA")
    ELSE IF RGt(icr, R(55, 10)) THEN Tier(107, "A+")
    ELSE IF RGt(icr, R(425, 100)) THEN Tier(118, "A")
    ELSE IF RGt(icr, R(3, 1)) THEN Tier(133, "A-")
    ELSE IF RGt(icr, R(25, 10)) THEN Tier(171, "BBB")
    ELSE IF RGt(icr, R(225, 100)) THEN Tier(231, "BB+")
    ELSE IF RGt(icr, R(2, 1)) THEN Tier(277, "BB")
    ELSE IF RGt(icr, R(175, 100)) THEN Tier(349, "B+")
    ELSE IF RGt(icr, R(15, 10)) THEN Tier(416, "B")
    ELSE IF RGt(icr, R(125, 100)) THEN Tier(577, "B-")
    ELSE IF RGt(icr, R(8, 10)) THEN Tier(827, "CCC")
    ELSE IF RGt(icr, R(65, 100)) THEN Tier(1347, "CC")
    ELSE Tier(2000, "D")

\* 2. Default spread lookup, engine.py (13 tiers: no CC branch)
EngineSpreadLookup(icr) ==
    IF RGt(icr, R(85, 10)) THEN Tier(69, "AAA")
    ELSE IF RGt(icr, R(65, 10)) THEN Tier(85, "AA")
    ELSE IF RGt(icr, R(55, 10)) THEN Tier(107, "A+")
    ELSE IF RGt(icr, R(425, 100)) THEN Tier(118, "A")
    ELSE IF RGt(icr, R(3, 1)) THEN Tier(133, "A-")
    ELSE IF RGt(icr, R(25, 10)) THEN Tier(171, "BBB")
    ELSE IF RGt(icr, R(225, 100)) THEN Tier(231, "BB+")
    ELSE IF RGt(icr, R(2, 1)) THEN Tier(277, "BB")
    ELSE IF RGt(icr, R(175, 100)) THEN Tier(349, "B+")
    ELSE IF RGt(icr, R(15, 10)) THEN Tier(416, "B")
    ELSE IF RGt(icr, R(125, 100)) THEN Tier(577, "B-")
    ELSE IF RGt(icr, R(8, 10)) THEN Tier(827, "CCC")
    ELSE Tier(2000, "D")

SpreadLookup(copy, icr) ==
    IF copy = "valuation" THEN ValuationSpreadLookup(icr)
    ELSE EngineSpreadLookup(icr)

\* Faulty variant: the tax shield (1 - tax_rate) is left out.
AfterTaxCostOfDebt_NoTaxShield(risk_free_rate, spread, tax_rate) ==
    RAdd(risk_free_rate, spread)

\* 3. Cost of debt
AfterTaxCostOfDebt(risk_free_rate, spread, tax_rate) ==
    RMul(RAdd(risk_free_rate, spread), RSub(One, tax_rate))

\* 4. Cost of equity (CAPM)
EquityRiskPremium == R(5, 100)
DefaultBeta == R(11, 10)

CostOfEquity(risk_free_rate, beta) ==
    RAdd(risk_free_rate, RMul(beta, EquityRiskPremium))

\* The beta each copy uses for a ticker whose supplied beta is b:
\* valuation.py sets beta = 1.1 inside the function; engine.py takes the
\* caller's info.get('beta', 1.1).
BetaUsed(copy, b) ==
    IF copy = "valuation" THEN DefaultBeta
    ELSE IF b = Missing THEN DefaultBeta ELSE b

FallbackWacc == R(8, 100)

\* Faulty variant: the fallback is taken when market_cap = 0 instead of when
\* market_cap + total_debt = 0.
BlendWacc_MarketCapGuard(cost_of_equity, after_tax_cost_of_debt, market_cap, total_debt) ==
    LET total_capital == RAdd(market_cap, total_debt)
    IN  IF market_cap = Zero THEN R(8, 100)
        ELSE RAdd(RMul(cost_of_equity, RDiv(market_cap, total_capital)),
                  RMul(after_tax_cost_of_debt, RDiv(total_debt, total_capital)))

\* 5. WACC
BlendWacc(cost_of_equity, after_tax_cost_of_debt, market_cap, total_debt) ==
    LET total_capital == RAdd(market_cap, total_debt)
    IN  IF total_capital = Zero THEN FallbackWacc
        ELSE RAdd(RMul(cost_of_equity, RDiv(market_cap, total_capital)),
                  RMul(after_tax_cost_of_debt, RDiv(total_debt, total_capital)))

calculate_synthetic_wacc(copy, a) ==
    LET icr == InterestCoverage(a.ebit, a.interest_expense)
        tier == SpreadLookup(copy, icr)
        wacc == BlendWacc(CostOfEquity(a.risk_free_rate, BetaUsed(copy, a.beta)),
                          AfterTaxCostOfDebt(a.risk_free_rate, tier.spread, a.tax_rate),
                          a.market_cap, a.total_debt)
    IN  IF icr = Err \/ wacc = Err
        THEN [raised |-> TRUE, wacc |-> Err, spread |-> Err, icr |-> Err, rating |-> "none"]
        ELSE [raised |-> FALSE, wacc |-> wacc, spread |-> tier.spread, icr |-> icr,
              rating |-> tier.rating]

-----------------------------------------------------------------------------
(* Inputs *)

MinEbit == 2
MaxEbit == 172

BetaSet == {Missing, DefaultBeta, R(2, 1)}
Copies == {"valuation", "engine"}

WaccArgs ==
    [ebit : {R(n, 1) : n \in (0 - MinEbit)..MaxEbit},
     interest_expense : {R(-15, 1), Zero, R(15, 1), R(20, 1)},
     total_debt : {Zero, R(200, 1)},
     market_cap : {R(-200, 1), Zero, R(1000, 1)},
     tax_rate : {R(21, 100), R(10, 100)},
     risk_free_rate : {R(42, 1000), R(3, 100)},
     beta : BetaSet]

NoCall == [copy |-> "none"]
NoRet == [raised |-> FALSE, wacc |-> Err, spread |-> Err, icr |-> Err, rating |-> "none"]

-----------------------------------------------------------------------------
(* The WACC state machine *)

WaccInit ==
    /\ wpc = "idle"
    /\ wcall = NoCall
    /\ wret = NoRet

\* The caller reads the ticker's figures (yfinance info and income statement).
FetchTicker ==
    /\ wpc = "idle"
    /\ \E a \in WaccArgs : wcall' = [copy |-> "none", args |-> a]
    /\ wpc' = "fetched"
    /\ UNCHANGED wret
    /\ UNCHANGED besidesWacc

\* valuation.py: get_live_valuation_data calls the six-argument copy
CallValuationWacc ==
    /\ wpc = "fetched"
    /\ wcall' = [wcall EXCEPT !.copy = "valuation"]
    /\ wret' = calculate_synthetic_wacc("valuation", wcall.args)
    /\ wpc' = IF wret'.raised THEN "raised" ELSE "returned"
    /\ UNCHANGED besidesWacc

\* engine.py: run_valuation calls the seven-argument copy
CallEngineWacc ==
    /\ wpc = "fetched"
    /\ wcall' = [wcall EXCEPT !.copy = "engine"]
    /\ wret' = calculate_synthetic_wacc("engine", wcall.args)
    /\ wpc' = IF wret'.raised THEN "raised" ELSE "returned"
    /\ UNCHANGED besidesWacc

\* the caller takes the tuple and moves to the next ticker
NextTicker ==
    /\ wpc \in {"returned", "raised"}
    /\ wpc' = "idle"
    /\ wcall' = NoCall
    /\ wret' = NoRet
    /\ UNCHANGED besidesWacc

-----------------------------------------------------------------------------
(* DamodaranGinzuValuation *)

FadeYears == 5
EngineTerminalYear == 10
EngineMarginalTax == R(25, 100)

IsValuation(i) == i.copy = "valuation"

\* the horizon the loop body divides by: self.terminal_year in valuation.py,
\* the literal 10 in engine.py
Horizon(i) == IF IsValuation(i) THEN i.terminal_year ELSE EngineTerminalYear

\* Faulty variant: the growth rate fades from the first year on, over the
\* whole horizon, whatever the convergence year.
Growth_Rate_FadeFromStart(i, year) ==
    RSub(i.g_high,
         RMul(RDiv(RSub(i.g_high, i.g_stable), R(i.terminal_year, 1)), R(year, 1)))

\* 1. Growth rate of a year
Growth_Rate(i, year) ==
    IF IsValuation(i)
    THEN IF year <= i.convergence_year THEN i.g_high
         ELSE LET steps == i.terminal_year - i.convergence_year
              IN  RSub(i.g_high,
                       RMul(RDiv(RSub(i.g_high, i.g_stable), R(steps, 1)),
                            R(year - i.convergence_year, 1)))
    ELSE IF year <= FadeYears THEN i.g_high
         ELSE RSub(i.g_high,
                   RMul(RDiv(RSub(i.g_high, i.g_stable), R(FadeYears, 1)),
                        R(year - FadeYears, 1)))

\* Faulty variant: the margin follows the growth schedule and reaches the
\* target at the convergence year.
EBIT_Margin_ToConvergence(i, year) ==
    LET current_margin_pct == RDiv(i.ebit_0, i.rev_0)
        c == IF IsValuation(i) THEN i.convergence_year ELSE FadeYears
    IN  IF year >= c THEN i.target_margin
        ELSE RAdd(current_margin_pct,
                  RMul(RDiv(RSub(i.target_margin, current_margin_pct), R(c, 1)),
                       R(year, 1)))

\* 3. Margin of a year
EBIT_Margin(i, year) ==
    LET current_margin_pct == RDiv(i.ebit_0, i.rev_0)
        margin_step == RDiv(RSub(i.target_margin, current_margin_pct), R(Horizon(i), 1))
    IN  RAdd(current_margin_pct, RMul(margin_step, R(year, 1)))

\* 4. Tax rate of a year
Tax_Rate(i, year) ==
    LET marginal == IF IsValuation(i) THEN i.tax_marginal ELSE EngineMarginalTax
    IN  RAdd(i.tax_initial,
             RMul(RDiv(RSub(marginal, i.tax_initial), R(Horizon(i), 1)), R(year, 1)))

\* 5. Reinvestment
Reinvestment(i, rev_change) ==
    IF IsValuation(i)
    THEN IF i.sales_to_cap # Zero THEN RDiv(rev_change, i.sales_to_cap) ELSE Zero
    ELSE RDiv(rev_change, i.sales_to_cap)

\* Faulty variant: the WACC fades with the growth rate, from the
\* convergence year to the terminal year.
YearWACC_ScaledToHorizon(i, year) ==
    LET c == IF IsValuation(i) THEN i.convergence_year ELSE FadeYears
    IN  IF year <= c \/ i.terminal_year <= c THEN i.wacc_high
        ELSE RSub(i.wacc_high,
                  RMul(RDiv(RSub(i.wacc_high, i.wacc_stable), R(i.terminal_year - c, 1)),
                       R(year - c, 1)))

\* 7. WACC of a year
YearWACC(i, year) ==
    IF year <= FadeYears THEN i.wacc_high
    ELSE RSub(i.wacc_high,
              RMul(RDiv(RSub(i.wacc_high, i.wacc_stable), R(FadeYears, 1)),
                   R(year - FadeYears, 1)))

\* Faulty variant: revenue grows by simple instead of compound growth: each
\* year adds the growth rate times the base-year revenue.
ProjectRow_SimpleGrowth(i, year, prev_rev) ==
    LET g == Growth_Rate(i, year)
        current_rev == RAdd(prev_rev, RMul(i.rev_0, g))
        margin == EBIT_Margin(i, year)
        ebit == RMul(current_rev, margin)
        tax_rate == Tax_Rate(i, year)
        ebit_after_tax == RMul(ebit, RSub(One, tax_rate))
        reinvestment == Reinvestment(i, RSub(current_rev, prev_rev))
    IN  [Revenue |-> current_rev, Growth_Rate |-> g, EBIT_Margin |-> margin,
         EBIT |-> ebit, Tax_Rate |-> tax_rate, EBIT_1_t |-> ebit_after_tax,
         Reinvestment |-> reinvestment, FCFF |-> RSub(ebit_after_tax, reinvestment),
         WACC |-> YearWACC(i, year), Cum_Discount_Factor |-> Zero, PV_FCFF |-> Zero]

\* one pass of the projection loop body
ProjectRow(i, year, prev_rev) ==
    LET g == Growth_Rate(i, year)
        current_rev == RMul(prev_rev, RAdd(One, g))
        margin == EBIT_Margin(i, year)
        ebit == RMul(current_rev, margin)
        tax_rate == Tax_Rate(i, year)
        ebit_after_tax == RMul(ebit, RSub(One, tax_rate))
        reinvestment == Reinvestment(i, RSub(current_rev, prev_rev))
    IN  [Revenue |-> current_rev, Growth_Rate |-> g, EBIT_Margin |-> margin,
         EBIT |-> ebit, Tax_Rate |-> tax_rate, EBIT_1_t |-> ebit_after_tax,
         Reinvestment |-> reinvestment, FCFF |-> RSub(ebit_after_tax, reinvestment),
         WACC |-> YearWACC(i, year), Cum_Discount_Factor |-> Zero, PV_FCFF |-> Zero]

RowRaised(row) ==
    \E f \in DOMAIN row : row[f] = Err

\* Faulty variant: each year is discounted by its own WACC only.
Discounted_OwnYearOnly(row, cum_before) ==
    LET cum_discount == RDiv(One, RAdd(One, row.WACC))
    IN  [row EXCEPT !.Cum_Discount_Factor = cum_discount,
                    !.PV_FCFF = RMul(row.FCFF, cum_discount)]

\* the discounting of one year
Discounted(row, cum_before) ==
    LET cum_discount == RDiv(cum_before, RAdd(One, row.WACC))
    IN  [row EXCEPT !.Cum_Discount_Factor = cum_discount,
                    !.PV_FCFF = RMul(row.FCFF, cum_discount)]

\* the early return of run_valuation
ReturnsNone(i) ==
    IF IsValuation(i) THEN RLe(i.rev_0, Zero)
    ELSE RLe(i.rev_0, Zero) \/ RLe(i.shares, Zero)

RECURSIVE SumPV(_, _)
SumPV(rows, n) == IF n = 0 THEN Zero ELSE RAdd(SumPV(rows, n - 1), rows[n].PV_FCFF)

\* the terminal value and what follows it
TerminalDenominator(i) == RSub(i.wacc_stable, i.g_stable)

\* Faulty variant: the minority interests are added to the equity value instead
\* of subtracted.
TerminalStep_MinorityAdded(i, final_ebit_1_t, final_discount, pv_fcff_sum) ==
    LET stable_reinv_rate == RDiv(i.g_stable, i.wacc_stable)
        terminal_fcff == RMul(RMul(final_ebit_1_t, RAdd(One, i.g_stable)),
                              RSub(One, stable_reinv_rate))
        terminal_value == RDiv(terminal_fcff, TerminalDenominator(i))
        pv_terminal == RMul(terminal_value, final_discount)
        operating == RAdd(pv_fcff_sum, pv_terminal)
        equity_value ==
            IF IsValuation(i)
            THEN RAdd(RSub(RAdd(RAdd(operating, i.cash), i.non_op_assets), i.debt),
                      i.minority_interests)
            ELSE RSub(RAdd(operating, i.cash), i.debt)
    IN  [terminal_fcff |-> terminal_fcff, terminal_value |-> terminal_value,
         pv_terminal |-> pv_terminal, equity_value |-> equity_value]

TerminalStep(i, final_ebit_1_t, final_discount, pv_fcff_sum) ==
    LET stable_reinv_rate == RDiv(i.g_stable, i.wacc_stable)
        terminal_fcff == RMul(RMul(final_ebit_1_t, RAdd(One, i.g_stable)),
                              RSub(One, stable_reinv_rate))
        terminal_value == RDiv(terminal_fcff, TerminalDenominator(i))
        pv_terminal == RMul(terminal_value, final_discount)
        operating == RAdd(pv_fcff_sum, pv_terminal)
        equity_value ==
            IF IsValuation(i)
            THEN RSub(RSub(RAdd(RAdd(operating, i.cash), i.non_op_assets), i.debt),
                      i.minority_interests)
            ELSE RSub(RAdd(operating, i.cash), i.debt)
    IN  [terminal_fcff |-> terminal_fcff, terminal_value |-> terminal_value,
         pv_terminal |-> pv_terminal, equity_value |-> equity_value]

ValuePerShare(i, equity_value) ==
    IF IsValuation(i)
    THEN IF i.shares # Zero THEN RDiv(equity_value, i.shares) ELSE Zero
    ELSE RDiv(equity_value, i.shares)

\* round(equity_value / 1e9, 2)
EquityValueB(equity_value) ==
    IF equity_value = Err THEN Err
    ELSE IF Abs(equity_value[1]) \div equity_value[2] < 4999999 THEN Zero
    ELSE Round2(RDiv(equity_value, R(1000000000, 1)))

\* the value run_valuation returns: a dict in valuation.py, a float in engine.py
Returned(i, equity_value) ==
    LET value_per_share == ValuePerShare(i, equity_value)
    IN  IF IsValuation(i)
        THEN [kind |-> "dict", value |-> Round2(value_per_share),
              Equity_Value_B |-> EquityValueB(equity_value),
              WACC_Initial |-> Round2(RMul(i.wacc_high, R(100, 1))),
              Stable_WACC |-> Round2(RMul(i.wacc_stable, R(100, 1)))]
        ELSE [kind |-> "float", value |-> value_per_share]

NoneResult == [kind |-> "None"]
\* a ZeroDivisionError, and the part of run_valuation that raised it
Raised(at) == [kind |-> "ZeroDivisionError", at |-> at]
NoResult == [kind |-> "pending"]
NoInstance == [copy |-> "none"]
NoLocals == [year |-> 0]

NoEarlier == [how |-> "none"]

\* Faulty variant: the schedule outlives the call and the next call goes on
\* appending to it.
FreshSchedule_Kept == df

\* df = pd.DataFrame(...): the schedule is a local of run_valuation
FreshSchedule == << >>

StartLocals(i) ==
    [year |-> 0, current_rev |-> i.rev_0, pv_fcff_sum |-> Zero, cum_discount |-> One,
     final_ebit_1_t |-> Zero, final_discount |-> Zero]

\* Constructor arguments.  The ten-year instances take rates whose powers
\* stay small; the short-horizon instances of valuation.py take finer ones.
MaxTerminalYear == 2
DefaultTerminalYear == 10
DefaultConvergenceYear == 5

RevenueSet == {R(-100, 1), Zero, R(100, 1)}
SharesSet == {R(-10, 1), Zero, R(10, 1)}
EbitZeroSet == {R(25, 1), R(-25, 1)}
TaxInitialSet == {R(1, 4)}
SalesToCapSet == {Zero, R(3, 2)}
TargetMarginSet == {R(1, 4)}
CashSet == {R(10, 1)}
DebtSetDcf == {Zero, R(1000, 1)}
MinoritySet == {Zero, R(5, 1)}
NonOpAssetsSet == {Zero, R(7, 1)}

LongWaccHighSet == {One}
LongWaccStableSet == {Zero, One}
LongGrowthHighSet == {Zero, One}
LongGrowthStableSet == {Zero, One, R(2, 1)}


EngineInstances ==
    [copy : {"engine"}, rev_0 : RevenueSet, ebit_0 : EbitZeroSet,
     tax_initial : TaxInitialSet, wacc_high : LongWaccHighSet,
     wacc_stable : LongWaccStableSet, g_high : LongGrowthHighSet,
     g_stable : LongGrowthStableSet, sales_to_cap : SalesToCapSet,
     target_margin : TargetMarginSet, cash : CashSet, debt : DebtSetDcf,
     shares : SharesSet, terminal_year : {EngineTerminalYear}]

ValuationShortInstances ==
    [copy : {"valuation"}, rev_0 : RevenueSet, ebit_0 : EbitZeroSet,
     tax_initial : TaxInitialSet, tax_marginal : {R(1, 4)},
     wacc_high : {R(1, 4), One}, wacc_stable : {Zero, R(1, 1000), R(1, 4)},
     g_high : {Zero, R(1, 4)}, g_stable : {Zero, R(1, 4), R(1, 2)},
     sales_to_cap : SalesToCapSet,
     target_margin : TargetMarginSet, cash : CashSet, debt : DebtSetDcf,
     minority_interests : MinoritySet, shares : SharesSet,
     non_op_assets : NonOpAssetsSet,
     convergence_year : 0..MaxTerminalYear, terminal_year : 1..MaxTerminalYear]

ValuationDefaultInstances ==
    [copy : {"valuation"}, rev_0 : RevenueSet, ebit_0 : EbitZeroSet,
     tax_initial : TaxInitialSet, tax_marginal : {R(1, 4)},
     wacc_high : LongWaccHighSet, wacc_stable : LongWaccStableSet,
     g_high : LongGrowthHighSet, g_stable : LongGrowthStableSet,
     sales_to_cap : SalesToCapSet,
     target_margin : TargetMarginSet, cash : CashSet, debt : DebtSetDcf,
     minority_interests : MinoritySet, shares : SharesSet,
     non_op_assets : NonOpAssetsSet,
     convergence_year : {DefaultConvergenceYear}, terminal_year : {DefaultTerminalYear}]

\* Short-horizon instances with one growth rate and one discount rate
\* throughout, with and without a moving margin and a moving tax rate.
ValuationSteadyInstances ==
    [copy : {"valuation"}, rev_0 : {R(100, 1)}, ebit_0 : {R(25, 1), R(20, 1)},
     tax_initial : {R(1, 4), R(1, 5)}, tax_marginal : {R(1, 4)},
     wacc_high : {R(3, 8)}, wacc_stable : {R(3, 8)},
     g_high : {R(1, 3)}, g_stable : {R(1, 3)},
     sales_to_cap : SalesToCapSet,
     target_margin : TargetMarginSet, cash : CashSet, debt : {Zero},
     minority_interests : {Zero}, shares : {R(10, 1)}, non_op_assets : {Zero},
     convergence_year : 0..MaxTerminalYear, terminal_year : 1..MaxTerminalYear]

ValuationInstances ==
    ValuationShortInstances \cup ValuationDefaultInstances \cup ValuationSteadyInstances

DcfInit ==
    /\ dpc = "new"
    /\ inst = NoInstance
    /\ loc = NoLocals
    /\ df = << >>
    /\ result = NoResult
    /\ earlier = NoEarlier

\* valuation.py: DamodaranGinzuValuation(...)
ConstructValuation ==
    /\ dpc = "new"
    /\ \E i \in ValuationInstances : inst' = i
    /\ dpc' = "built"
    /\ UNCHANGED <<loc, df, result>>
    /\ UNCHANGED besidesDcf

\* engine.py: DamodaranGinzuValuation(...)
ConstructEngine ==
    /\ dpc = "new"
    /\ \E i \in EngineInstances : inst' = i
    /\ dpc' = "built"
    /\ UNCHANGED <<loc, df, result>>
    /\ UNCHANGED besidesDcf

\* run_valuation, up to the projection loop
EnterRunValuation ==
    /\ dpc = "built"
    /\ IF ReturnsNone(inst)
       THEN /\ result' = NoneResult
            /\ dpc' = "done"
            /\ UNCHANGED <<loc, df>>
       ELSE /\ loc' = StartLocals(inst)
            /\ df' = FreshSchedule
            /\ dpc' = "loop"
            /\ UNCHANGED result
    /\ UNCHANGED inst
    /\ UNCHANGED besidesDcf

\* one year of the projection loop; engine.py discounts in the same pass
ProjectYear ==
    /\ dpc = "loop"
    /\ LET year == loc.year + 1
           row == ProjectRow(inst, year, loc.current_rev)
           last == year = inst.terminal_year
       IN  IF RowRaised(row)
           THEN /\ dpc' = "raised"
                /\ result' = Raised(dpc)
                /\ UNCHANGED <<loc, df>>
           ELSE IF IsValuation(inst)
           THEN /\ df' = Append(df, row)
                /\ loc' = [loc EXCEPT !.year = IF last THEN 0 ELSE year,
                                      !.current_rev = row.Revenue]
                /\ dpc' = IF last THEN "discount" ELSE "loop"
                /\ UNCHANGED result
           ELSE LET done == Discounted(row, loc.cum_discount)
                IN  IF RowRaised(done)
                    THEN /\ dpc' = "raised"
                         /\ result' = Raised(dpc)
                         /\ UNCHANGED <<loc, df>>
                    ELSE /\ df' = Append(df, done)
                         /\ loc' = [loc EXCEPT
                                !.year = year,
                                !.current_rev = row.Revenue,
                                !.cum_discount = done.Cum_Discount_Factor,
                                !.pv_fcff_sum = RAdd(loc.pv_fcff_sum, done.PV_FCFF),
                                !.final_ebit_1_t =
                                    IF year = EngineTerminalYear THEN row.EBIT_1_t ELSE @,
                                !.final_discount =
                                    IF year = EngineTerminalYear
                                    THEN done.Cum_Discount_Factor ELSE @]
                         /\ dpc' = IF last THEN "terminal" ELSE "loop"
                         /\ UNCHANGED result
    /\ UNCHANGED inst
    /\ UNCHANGED besidesDcf

\* valuation.py: one year of the discounting loop
DiscountYear ==
    /\ dpc = "discount"
    /\ LET year == loc.year + 1
           done == Discounted(df[year], loc.cum_discount)
       IN  IF RowRaised(done)
           THEN /\ dpc' = "raised"
                /\ result' = Raised(dpc)
                /\ UNCHANGED <<loc, df>>
           ELSE /\ df' = [df EXCEPT ![year] = done]
                /\ loc' = [loc EXCEPT !.year = year,
                                      !.cum_discount = done.Cum_Discount_Factor]
                /\ dpc' = IF year = inst.terminal_year THEN "terminal" ELSE "discount"
                /\ UNCHANGED result
    /\ UNCHANGED inst
    /\ UNCHANGED besidesDcf

\* the terminal value, the equity value and the return
TerminalValue ==
    /\ dpc = "terminal"
    /\ LET n == inst.terminal_year
           t == IF IsValuation(inst)
                THEN TerminalStep(inst, df[n].EBIT_1_t, df[n].Cum_Discount_Factor,
                                  SumPV(df, n))
                ELSE TerminalStep(inst, loc.final_ebit_1_t, loc.final_discount,
                                  loc.pv_fcff_sum)
           r == Returned(inst, t.equity_value)
       IN  IF t.equity_value = Err \/ r.value = Err
           THEN /\ dpc' = "raised"
                /\ result' = Raised(dpc)
                /\ UNCHANGED loc
           ELSE /\ loc' = [loc EXCEPT !.year = n] @@ t
                /\ result' = r
                /\ dpc' = "done"
    /\ UNCHANGED <<inst, df>>
    /\ UNCHANGED besidesDcf

\* the caller has read the result; the instance and its schedule are dropped
Discard ==
    /\ dpc \in {"done", "raised"}
    /\ dpc' = "new"
    /\ inst' = NoInstance
    /\ loc' = NoLocals
    /\ df' = << >>
    /\ result' = NoResult
    /\ UNCHANGED besidesDcf

\* the instances run_valuation is called on twice
ConstructForTwoCalls ==
    /\ dpc = "new"
    /\ \E i \in EngineInstances \cup ValuationSteadyInstances : inst' = i
    /\ dpc' = "built"
    /\ UNCHANGED <<loc, df, result, earlier>>
    /\ UNCHANGED <<wvars, rvars, pvars, orders, bvars>>

\* the caller keeps what the call returned and calls run_valuation on the
\* same instance again
CallAgain ==
    /\ dpc \in {"done", "raised"}
    /\ earlier = NoEarlier
    /\ earlier' = [how |-> "same instance", inst |-> inst, result |-> result]
    /\ dpc' = "built"
    /\ result' = NoResult
    /\ UNCHANGED <<inst, loc, df>>
    /\ UNCHANGED <<wvars, rvars, pvars, orders, bvars>>

\* the caller keeps what the call returned, builds a second instance from
\* the inputs of the first and calls run_valuation on it
CallOnTwin ==
    /\ dpc \in {"done", "raised"}
    /\ earlier = NoEarlier
    /\ earlier' = [how |-> "twin", inst |-> inst, result |-> result]
    /\ inst' = earlier'.inst
    /\ dpc' = "built"
    /\ result' = NoResult
    /\ UNCHANGED <<loc, df>>
    /\ UNCHANGED <<wvars, rvars, pvars, orders, bvars>>

-----------------------------------------------------------------------------
(* data_pipeline.py and model_engine.py: the factor ranking *)

\* A NULL of the database, None or NaN in a frame, is the value Missing;
\* arithmetic on it gives it back.
NAdd(a, b) == IF a = Missing \/ b = Missing THEN Missing ELSE RAdd(a, b)
NMul(a, b) == IF a = Missing \/ b = Missing THEN Missing ELSE RMul(a, b)

RECURSIVE SeqSum(_)
SeqSum(q) == IF q = << >> THEN 0 ELSE q[Len(q)] + SeqSum(SubSeq(q, 1, Len(q) - 1))

\* A price history is a sequence of runs, oldest first: `days` consecutive
\* daily closes at `close`.
Run(close, days) == [close |-> close, days |-> days]

\* len(df_stock)
NumCloses(closes) == SeqSum([k \in 1..Len(closes) |-> closes[k].days])

\* df_stock['close'].iloc[-1]
LastClose(closes) == closes[Len(closes)].close

\* the sum of the last `window` closes
RECURSIVE SumOfLast(_, _)
SumOfLast(closes, window) ==
    IF window = 0 \/ closes = << >> THEN Zero
    ELSE LET last == closes[Len(closes)]
             taken == IF last.days < window THEN last.days ELSE window
         IN  RAdd(RMul(last.close, R(taken, 1)),
                  SumOfLast(SubSeq(closes, 1, Len(closes) - 1), window - taken))

SmaWindow == 200
MinCloses == 200

\* df_stock['close'].rolling(200).mean().iloc[-1]
Sma200(closes) ==
    IF NumCloses(closes) < SmaWindow THEN Missing
    ELSE RDiv(SumOfLast(closes, SmaWindow), R(SmaWindow, 1))

\* if len(df_stock) > 200
HasEnoughHistory(closes) == NumCloses(closes) > MinCloses

MomentumRow(p) ==
    LET current_price == LastClose(p.closes)
        sma_200 == Sma200(p.closes)
    IN  [ticker |-> p.ticker, current_price |-> current_price, sma_200 |-> sma_200,
         momentum_pct |-> RDiv(RSub(current_price, sma_200), sma_200)]

RECURSIVE calculate_momentum(_)
calculate_momentum(df_prices) ==
    IF df_prices = << >> THEN << >>
    ELSE IF HasEnoughHistory(Head(df_prices).closes)
    THEN <<MomentumRow(Head(df_prices))>> \o calculate_momentum(Tail(df_prices))
    ELSE calculate_momentum(Tail(df_prices))

\* pd.merge(df_fund, df_mom, on='ticker', how='inner'): the rows of df_fund,
\* in its order, whose ticker df_mom has, with the columns of both
RECURSIVE Merge(_, _)
Merge(df_fund, mom) ==
    IF df_fund = << >> THEN << >>
    ELSE LET f == Head(df_fund)
             matches == SelectSeq(mom, LAMBDA m : m.ticker = f.ticker)
             rest == Merge(Tail(df_fund), mom)
         IN  IF matches = << >> THEN rest
             ELSE <<[ticker |-> f.ticker, pe_ratio |-> f.pe_ratio,
                     profit_margin |-> f.profit_margin, market_cap |-> f.market_cap,
                     current_price |-> matches[1].current_price,
                     sma_200 |-> matches[1].sma_200,
                     momentum_pct |-> matches[1].momentum_pct]>> \o rest

\* Faulty variant: ties are ranked in row order (method='first').
RankPct_First(column, i, ascending) ==
    IF column[i] = Missing THEN Missing
    ELSE LET present == {k \in 1..Len(column) : column[k] # Missing}
             before == {k \in present :
                           IF ascending THEN RLt(column[k], column[i])
                           ELSE RGt(column[k], column[i])}
             tied == {k \in present : column[k] = column[i] /\ k <= i}
         IN  RDiv(R(Cardinality(before) + Cardinality(tied), 1),
                  R(Cardinality(present), 1))

\* Series.rank(ascending=..., pct=True): method 'average', NaN kept as NaN and
\* left out of the count.  The tied values take the positions
\* before+1 .. before+tied of the sorted column and share their mean.
RankPct(column, i, ascending) ==
    IF column[i] = Missing THEN Missing
    ELSE LET present == {k \in 1..Len(column) : column[k] # Missing}
             before == Cardinality({k \in present :
                           IF ascending THEN RLt(column[k], column[i])
                           ELSE RGt(column[k], column[i])})
             tied == Cardinality({k \in present : column[k] = column[i]})
             positions == [k \in 1..tied |-> before + k]
             average == R(SeqSum(positions), tied)
         IN  RDiv(average, R(Cardinality(present), 1))

RECURSIVE Column(_, _)
Column(rows, name) ==
    IF rows = << >> THEN << >> ELSE <<Head(rows)[name]>> \o Column(Tail(rows), name)

\* Faulty variant: the P/E rank is not inverted.
value_score_NotInverted(rows, i) ==
    NMul(RankPct(Column(rows, "pe_ratio"), i, TRUE), R(100, 1))

\* A. Value Score (Lower P/E is better)
value_score(rows, i) ==
    NMul(RankPct(Column(rows, "pe_ratio"), i, FALSE), R(100, 1))

\* B. Quality Score (Higher Margins is better)
quality_score(rows, i) ==
    NMul(RankPct(Column(rows, "profit_margin"), i, TRUE), R(100, 1))

\* C. Momentum Score (Higher Trend is better)
trend_score(rows, i) ==
    NMul(RankPct(Column(rows, "momentum_pct"), i, TRUE), R(100, 1))

\* D. Composite Score (Weighted Average)
TOTAL_SCORE(value, trend, quality) ==
    NAdd(NAdd(NMul(R(40, 100), value), NMul(R(40, 100), trend)),
         NMul(R(20, 100), quality))

RECURSIVE ScoredRows(_, _)
ScoredRows(rows, n) ==
    IF n = 0 THEN << >>
    ELSE LET value == value_score(rows, n)
             quality == quality_score(rows, n)
             trend == trend_score(rows, n)
         IN  Append(ScoredRows(rows, n - 1),
                    rows[n] @@ [value_score |-> value, quality_score |-> quality,
                                trend_score |-> trend,
                                TOTAL_SCORE |-> TOTAL_SCORE(value, trend, quality)])

Scored(rows) == ScoredRows(rows, Len(rows))

\* sort_values('TOTAL_SCORE', ascending=False): NaN goes last; the order of
\* equal scores is not fixed by the sort
SortedByTotal(rows) ==
    \A k \in 1..(Len(rows) - 1) :
        IF rows[k + 1].TOTAL_SCORE = Missing THEN TRUE
        ELSE IF rows[k].TOTAL_SCORE = Missing THEN FALSE
        ELSE RLe(rows[k + 1].TOTAL_SCORE, rows[k].TOTAL_SCORE)

Reordered(rows, order) == [k \in 1..Len(rows) |-> rows[order[k]]]

\* the frames the sort may produce
SortChoices(rows) ==
    {Reordered(rows, order) : order \in
        {o \in Permutations(1..Len(rows)) : SortedByTotal(Reordered(rows, o))}}

\* What yfinance answers for a ticker: info['trailingPE'], info['trailingEps'],
\* fast_info.last_price, info['profitMargins'], info['marketCap'] and the
\* two-year history of closes.
\* histories of more than 200 closes, 10 %, 5 % and 0 % above their 200-day mean
Above10 == <<Run(R(1989, 1), SmaWindow), Run(R(2189, 1), 1)>>
Above05 == <<Run(R(3979, 1), SmaWindow), Run(R(4179, 1), 1)>>
Above00 == <<Run(R(100, 1), SmaWindow), Run(R(100, 1), 1)>>

\* Every P/E with every margin at one momentum; every momentum at one P/E and
\* margin; the best and the worst ticker on all three; tickers with figures
\* missing; and histories of exactly 200 closes, of 199 and of none.
Answers ==
    [trailingPE : {R(10, 1), R(20, 1), R(30, 1)}, trailingEps : {Missing},
     last_price : {R(100, 1)},
     profitMargins : {R(1, 10), R(2, 10), R(3, 10)}, marketCap : {R(1000, 1)},
     closes : {Above05}]
    \cup
    [trailingPE : {R(20, 1)}, trailingEps : {Missing}, last_price : {R(100, 1)},
     profitMargins : {R(2, 10)}, marketCap : {R(1000, 1)},
     closes : {Above10, Above00}]
    \cup
    [trailingPE : {R(10, 1)}, trailingEps : {Missing}, last_price : {R(100, 1)},
     profitMargins : {R(3, 10)}, marketCap : {R(1000, 1)},
     closes : {Above10}]
    \cup
    [trailingPE : {R(30, 1)}, trailingEps : {Missing}, last_price : {R(100, 1)},
     profitMargins : {R(1, 10)}, marketCap : {R(1000, 1)},
     closes : {Above00}]
    \cup
    [trailingPE : {Missing}, trailingEps : {Missing, R(5, 1)}, last_price : {R(100, 1)},
     profitMargins : {R(2, 10)}, marketCap : {Missing, R(1000, 1)},
     closes : {Above05}]
    \cup
    [trailingPE : {R(20, 1)}, trailingEps : {Missing}, last_price : {R(100, 1)},
     profitMargins : {Missing}, marketCap : {R(1000, 1)},
     closes : {Above05}]
    \cup
    [trailingPE : {R(20, 1)}, trailingEps : {Missing}, last_price : {R(100, 1)},
     profitMargins : {R(2, 10)}, marketCap : {R(1000, 1)},
     closes : {<<Run(R(100, 1), SmaWindow - 1), Run(R(110, 1), 1)>>,
               <<Run(R(100, 1), SmaWindow - 2), Run(R(110, 1), 1)>>,
               << >>}]

MasterTickers == <<"T1", "T2", "T3">>

RankInit ==
    /\ rpc = "pipeline"
    /\ tickers = MasterTickers
    /\ fundamentals = << >>
    /\ prices = << >>
    /\ df_mom = << >>
    /\ df_final = << >>

\* the P/E fetch_and_save stores: trailingPE, else price / EPS when both are there
StoredPe(info) ==
    IF info.trailingPE # Missing THEN info.trailingPE
    ELSE IF info.last_price # Missing /\ info.last_price # Zero
            /\ info.trailingEps # Missing /\ info.trailingEps # Zero
         THEN RDiv(info.last_price, info.trailingEps)
         ELSE Missing

\* data_pipeline.py: fetch_and_save(ticker) for the next ticker of the list
fetch_and_save ==
    /\ rpc = "pipeline"
    /\ tickers # << >>
    /\ \E info \in Answers :
        LET ticker == Head(tickers)
            pe == StoredPe(info)
            data == [ticker |-> ticker, pe_ratio |-> pe,
                     profit_margin |-> info.profitMargins, market_cap |-> info.marketCap]
        IN  /\ prices' =
                   IF info.closes # << >>
                   THEN Append(SelectSeq(prices, LAMBDA p : p.ticker # ticker),
                               [ticker |-> ticker, closes |-> info.closes])
                   ELSE prices
            /\ fundamentals' =
                   IF data.market_cap = Missing /\ data.pe_ratio = Missing
                   THEN fundamentals
                   ELSE Append(SelectSeq(fundamentals, LAMBDA f : f.ticker # ticker), data)
    /\ tickers' = Tail(tickers)
    /\ UNCHANGED <<rpc, df_mom, df_final>>
    /\ UNCHANGED besidesRank

\* model_engine.py: run_quant_model, 1. Load Data
get_data ==
    /\ rpc = "pipeline"
    /\ rpc' = "loaded"
    /\ UNCHANGED <<tickers, fundamentals, prices, df_mom, df_final>>
    /\ UNCHANGED besidesRank

\* run_quant_model, 2. Process Momentum
ProcessMomentum ==
    /\ rpc = "loaded"
    /\ df_mom' = calculate_momentum(prices)
    /\ rpc' = "momentum"
    /\ UNCHANGED <<tickers, fundamentals, prices, df_final>>
    /\ UNCHANGED besidesRank

\* run_quant_model, 3. merge, the scoring engine, the sort and the save.  An
\* empty momentum frame has no 'ticker' column and the merge raises KeyError.
ScoreAndSave ==
    /\ rpc = "momentum"
    /\ IF df_mom = << >>
       THEN /\ rpc' = "raised"
            /\ UNCHANGED df_final
       ELSE /\ \E sorted \in SortChoices(Scored(Merge(fundamentals, df_mom))) :
                   df_final' = sorted
            /\ rpc' = "ranked"
    /\ UNCHANGED <<tickers, fundamentals, prices, df_mom>>
    /\ UNCHANGED besidesRank

-----------------------------------------------------------------------------
(* The watchlist runs: run_valuation() of engine.py and the main section   *)
(* of valuation.py.  Both go through the watchlist ticker by ticker, read  *)
(* Yahoo's figures, call the WACC calculator and the projector, and append *)
(* one row per ticker valued.                                              *)

\* In Yahoo's info a key is absent (Missing), there with None (Null), or
\* there with a number.  TypeError is what arithmetic on None raises.
Null == <<0, -2>>
TypeError == <<0, -3>>

IsNone(x) == x \in {Missing, Null}
\* Python's truth value of a figure: None and 0 are false
Truthy(x) == x \notin {Missing, Null, Zero}
\* info.get(key)
Get(x) == IF x = Missing THEN Null ELSE x
\* info.get(key, default): the default stands in for an absent key only
GetOr(x, default) == IF x = Missing THEN default ELSE x

RAbs(x) == IF x[1] < 0 THEN RNeg(x) ELSE x

\* the lines of the income statement, when Yahoo has one
income_stmt ==
    [Operating_Income |-> R(150, 1), Interest_Expense |-> R(-15, 1),
     Tax_Provision |-> R(30, 1), Pretax_Income |-> R(120, 1)]

\* What Yahoo answers for a ticker: stock.info raises, or it holds the
\* figures; income says whether there is an income statement, tnx is the
\* last close of ^TNX.
YahooAnswers ==
    {[raises |-> TRUE]} \cup
    [raises : {FALSE}, totalRevenue : {Missing, R(1000, 1)},
     sharesOutstanding : {R(100, 1)}, currentPrice : {R(48, 1)},
     totalCash : {Missing, Null, R(100, 1)}, totalDebt : {Missing, Null, R(200, 1)},
     beta : {Missing, R(2, 1)}, ebit : {Missing, R(12, 1)}, income : BOOLEAN,
     tnx : {Missing, R(4, 1)}]

\* check_technical_signals: None, or the RSI and the signals
TechNone == [Action |-> "None"]
TechData == [Action |-> "WATCH", RSI |-> R(30, 1), Signals |-> "OVERSOLD"]

\* The per-share values the ten-year projection arrives at.  The projection
\* itself is the projector's; here only its outcome matters: a value that
\* is zero or one that is not.
IntrinsicValues == {Zero, R(60, 1)}

MyWatchlist == <<"GOOGL", "AAPL">>

\* EBIT: info's, else the income statement's, else 15% of revenue
EbitOf(ans, rev) ==
    IF Truthy(Get(ans.ebit)) THEN ans.ebit
    ELSE IF ans.income THEN income_stmt.Operating_Income
    ELSE RMul(rev, R(15, 100))

DefaultTaxRate == R(21, 100)
\* max(0.10, min(tax_rate, 0.30))
ClampTax(tax_rate) ==
    IF RLt(tax_rate, R(10, 100)) THEN R(10, 100)
    ELSE IF RLt(R(30, 100), tax_rate) THEN R(30, 100)
    ELSE tax_rate

RiskFree(ans) ==
    IF ans.tnx = Missing THEN R(42, 1000) ELSE RDiv(ans.tnx, R(100, 1))

\* the call of calculate_synthetic_wacc: market_cap + total_debt and
\* beta * equity_risk_premium raise a TypeError on None
WaccCall(copy, a) ==
    IF \/ a.interest_expense = TypeError
       \/ a.total_debt = Null
       \/ copy = "engine" /\ a.beta = Null
    THEN [NoRet EXCEPT !.raised = TRUE]
    ELSE calculate_synthetic_wacc(copy, a)

\* engine.run_valuation() on an instance of the watchlist run, the
\* projection arriving at value: the equity bridge adds self.cash and
\* subtracts self.debt, a TypeError when either is None
RunOutcome(i, value) ==
    IF ReturnsNone(i) THEN NoneResult
    ELSE IF i.cash = Null \/ i.debt = Null THEN [kind |-> "TypeError"]
    ELSE IF IsValuation(i) THEN [kind |-> "dict", value |-> Round2(value)]
    ELSE [kind |-> "float", value |-> value]

EngineRow_UpsideOnly(ticker, price, intrinsic_val, w) ==
    LET upside == RDiv(RSub(intrinsic_val, price), price)
    IN  [Ticker |-> ticker,
         Action |-> IF RGt(upside, R(15, 100)) THEN "BUY" ELSE "WAIT",
         Upside |-> Round1(RMul(upside, R(100, 1))),
         Current_Price |-> price,
         Fair_Value |-> Round2(intrinsic_val),
         Rating |-> w.rating,
         WACC |-> <<Round1(RMul(w.wacc, R(100, 1))), "%">>]

EngineRow(ticker, price, intrinsic_val, w) ==
    LET upside == RDiv(RSub(intrinsic_val, price), price)
    IN  [Ticker |-> ticker,
         Action |-> IF RGt(upside, R(15, 100)) /\ w.rating \notin {"D", "CCC"}
                    THEN "BUY" ELSE "WAIT",
         Upside |-> Round1(RMul(upside, R(100, 1))),
         Current_Price |-> price,
         Fair_Value |-> Round2(intrinsic_val),
         Rating |-> w.rating,
         WACC |-> <<Round1(RMul(w.wacc, R(100, 1))), "%">>]

ValuationRow(ticker, price, intrinsic_value, w, tech_data) ==
    LET upside_pct == RDiv(RSub(intrinsic_value, price), price)
    IN  [Ticker |-> ticker,
         Action |-> IF RGt(upside_pct, R(15, 100)) /\ w.rating \notin {"D", "CC", "CCC"}
                    THEN "BUY" ELSE "WAIT",
         Upside |-> Round1(RMul(upside_pct, R(100, 1))),
         Current_Price |-> price,
         Fair_Value |-> intrinsic_value,
         Rating |-> w.rating,
         WACC |-> <<Round1(RMul(w.wacc, R(100, 1))), "%">>,
         RSI |-> tech_data.RSI,
         Tech_Signals |-> tech_data.Signals]

NoRow == [Ticker |-> "none"]
NoRun == [ticker |-> "none", stage |-> "none"]

\* the loop body's locals when it is left at stage
Left(copy, ticker, ans, tech, stage, args, i, row) ==
    [copy |-> copy, ticker |-> ticker, ans |-> ans, tech |-> tech, stage |-> stage,
     args |-> args, inst |-> i, row |-> row]

\* engine.py: the body of the loop over the watchlist, inside its try
EngineBody(ticker, ans, value) ==
    IF ans.raises
    THEN Left("engine", ticker, ans, TechNone, "fetch raised", NoCall, NoInstance, NoRow)
    ELSE
    LET rev == Get(ans.totalRevenue)
        shares == Get(ans.sharesOutstanding)
        price == Get(ans.currentPrice)
        cash == GetOr(ans.totalCash, Zero)
        debt == GetOr(ans.totalDebt, Zero)
        beta == GetOr(ans.beta, DefaultBeta)
    IN  IF ~(Truthy(rev) /\ Truthy(shares) /\ Truthy(price))
        THEN Left("engine", ticker, ans, TechNone, "incomplete", NoCall, NoInstance, NoRow)
        ELSE
        LET ebit == EbitOf(ans, rev)
            \* interest = debt * 0.05 when the statement has none
            interest == IF ans.income THEN RAbs(income_stmt.Interest_Expense)
                        ELSE IF debt = Null THEN TypeError
                        ELSE RMul(debt, R(5, 100))
            \* the default is clamped as well
            tax_rate == ClampTax(IF ans.income
                                 THEN RDiv(income_stmt.Tax_Provision,
                                           income_stmt.Pretax_Income)
                                 ELSE DefaultTaxRate)
            args == [ebit |-> ebit, interest_expense |-> interest,
                     total_debt |-> debt, market_cap |-> RMul(price, shares),
                     tax_rate |-> tax_rate, risk_free_rate |-> RiskFree(ans),
                     beta |-> beta]
            w == WaccCall("engine", args)
        IN  IF w.raised
            THEN Left("engine", ticker, ans, TechNone, "wacc raised", args, NoInstance, NoRow)
            ELSE
            LET i == [copy |-> "engine", rev_0 |-> rev, ebit_0 |-> ebit,
                      tax_initial |-> tax_rate, wacc_high |-> w.wacc,
                      wacc_stable |-> R(75, 1000), g_high |-> R(10, 100),
                      g_stable |-> R(35, 1000), sales_to_cap |-> R(15, 10),
                      target_margin |-> R(25, 100), cash |-> cash, debt |-> debt,
                      shares |-> shares, terminal_year |-> EngineTerminalYear]
                intrinsic_val == RunOutcome(i, value)
            IN  IF intrinsic_val.kind = "TypeError"
                THEN Left("engine", ticker, ans, TechNone, "run raised", args, i, NoRow)
                ELSE IF intrinsic_val.kind = "None"
                THEN Left("engine", ticker, ans, TechNone, "none returned", args, i, NoRow)
                ELSE IF ~Truthy(intrinsic_val.value)
                THEN Left("engine", ticker, ans, TechNone, "falsy", args, i, NoRow)
                ELSE Left("engine", ticker, ans, TechNone, "row", args, i,
                          EngineRow(ticker, price, intrinsic_val.value, w))

\* valuation.py: get_live_valuation_data, then the body of the main loop
ValuationBody(ticker, ans, tech_data, value) ==
    IF ans.raises
    THEN Left("valuation", ticker, ans, tech_data, "fetch raised", NoCall, NoInstance, NoRow)
    ELSE
    LET current_revenue == Get(ans.totalRevenue)
        shares == Get(ans.sharesOutstanding)
        price == Get(ans.currentPrice)
        cash == Get(ans.totalCash)
        debt == Get(ans.totalDebt)
    IN  IF ~(Truthy(current_revenue) /\ Truthy(shares) /\ Truthy(price))
        THEN Left("valuation", ticker, ans, tech_data, "incomplete", NoCall, NoInstance, NoRow)
        ELSE
        LET ebit == EbitOf(ans, current_revenue)
            \* interest_expense = debt * 0.05 if debt else 0
            interest_expense == IF ans.income THEN RAbs(income_stmt.Interest_Expense)
                                ELSE IF Truthy(debt) THEN RMul(debt, R(5, 100))
                                ELSE Zero
            \* only the computed rate is clamped
            tax_rate == IF ans.income
                        THEN ClampTax(RDiv(income_stmt.Tax_Provision,
                                           income_stmt.Pretax_Income))
                        ELSE DefaultTaxRate
            args == [ebit |-> ebit, interest_expense |-> interest_expense,
                     total_debt |-> debt, market_cap |-> RMul(price, shares),
                     tax_rate |-> tax_rate, risk_free_rate |-> RiskFree(ans),
                     beta |-> Missing]
            w == WaccCall("valuation", args)
        IN  IF w.raised
            THEN Left("valuation", ticker, ans, tech_data, "wacc raised", args, NoInstance, NoRow)
            ELSE IF tech_data = TechNone
            THEN Left("valuation", ticker, ans, tech_data, "no technicals", args, NoInstance, NoRow)
            ELSE
            LET i == [copy |-> "valuation", rev_0 |-> current_revenue, ebit_0 |-> ebit,
                      tax_initial |-> tax_rate, tax_marginal |-> R(25, 100),
                      wacc_high |-> w.wacc, wacc_stable |-> R(75, 1000),
                      g_high |-> R(12, 100), g_stable |-> R(35, 1000),
                      sales_to_cap |-> R(15, 10), target_margin |-> R(25, 100),
                      cash |-> cash, debt |-> debt, minority_interests |-> Zero,
                      shares |-> shares, non_op_assets |-> Zero,
                      convergence_year |-> DefaultConvergenceYear,
                      terminal_year |-> DefaultTerminalYear]
                result_ == RunOutcome(i, value)
            IN  IF result_.kind = "TypeError"
                THEN Left("valuation", ticker, ans, tech_data, "run raised", args, i, NoRow)
                ELSE IF result_.kind = "None"
                THEN Left("valuation", ticker, ans, tech_data, "none returned", args, i, NoRow)
                ELSE Left("valuation", ticker, ans, tech_data, "row", args, i,
                          ValuationRow(ticker, price, result_.value, w, tech_data))

\* the projector returned a number for the ticker
Valued(left) == left.stage \in {"falsy", "row"}

PipeInit ==
    /\ ppc = "idle"
    /\ watch = << >>
    /\ results = << >>
    /\ seen = << >>
    /\ lastRun = NoRun
    /\ orders = << >>

\* what both loops do with the ticker just gone through
NextInWatchlist(left) ==
    /\ lastRun' = left
    /\ results' = IF left.stage = "row" THEN Append(results, left.row) ELSE results
    /\ seen' = Append(seen, [ticker |-> left.ticker, valued |-> Valued(left)])
    /\ watch' = Tail(watch)

\* engine.py run_valuation(): df_watch = pd.read_csv(...); results = []
EngineLoadWatchlist ==
    /\ ppc = "idle"
    /\ ppc' = "engine"
    /\ watch' = MyWatchlist
    /\ UNCHANGED <<results, seen, lastRun>>
    /\ UNCHANGED besidesRun

\* engine.py: one ticker of the loop; its try swallows every exception
EngineTicker ==
    /\ ppc = "engine"
    /\ watch # << >>
    /\ \E ans \in YahooAnswers, value \in IntrinsicValues :
           NextInWatchlist(EngineBody(Head(watch), ans, value))
    /\ UNCHANGED ppc
    /\ UNCHANGED besidesRun

\* engine.py: pd.DataFrame(results).to_csv(...)
EngineSave ==
    /\ ppc = "engine"
    /\ watch = << >>
    /\ ppc' = "saved"
    /\ UNCHANGED <<watch, results, seen, lastRun>>
    /\ UNCHANGED besidesRun

\* valuation.py: my_watchlist = ...; results_list = []
ValuationLoadWatchlist ==
    /\ ppc = "idle"
    /\ ppc' = "valuation"
    /\ watch' = MyWatchlist
    /\ UNCHANGED <<results, seen, lastRun>>
    /\ UNCHANGED besidesRun

\* what the main loop of valuation.py does with the ticker just gone
\* through: engine.run_valuation() is called outside any try, so what it
\* raises ends the script
ValuationNext(left) ==
    IF left.stage = "run raised"
    THEN /\ ppc' = "crashed"
         /\ lastRun' = left
         /\ UNCHANGED <<watch, results, seen>>
    ELSE /\ NextInWatchlist(left)
         /\ UNCHANGED ppc

\* valuation.py: one ticker of the main loop
ValuationTicker ==
    /\ ppc = "valuation"
    /\ watch # << >>
    /\ \E ans \in YahooAnswers, tech_data \in {TechNone, TechData}, value \in IntrinsicValues :
           ValuationNext(ValuationBody(Head(watch), ans, tech_data, value))
    /\ UNCHANGED besidesRun

\* valuation.py: if results_list: pd.DataFrame(results_list).to_csv(...)
ValuationSave ==
    /\ ppc = "valuation"
    /\ watch = << >>
    /\ ppc' = IF results # << >> THEN "saved" ELSE "finished"
    /\ UNCHANGED <<watch, results, seen, lastRun>>
    /\ UNCHANGED besidesRun

-----------------------------------------------------------------------------
\* The order lists: orders.py's main script, which reads the ETF strategy
\* of etf.py and the rows valuation.py saved, and engine.py's
\* generate_orders(), which reads the rows engine.run_valuation() saved.

TOTAL_CAPITAL == 10000
CORE_ALLOCATION == R(60, 100)
SATELLITE_ALLOCATION == R(40, 100)
\* engine.py generate_orders: total_satellite_cap
total_satellite_cap == 4000
\* df_etf.head(3) and sort_values(...).head(5)
TopEtfs == 3
TopStocks == 5

\* math.floor of a quotient
Floor_RoundedUp(x) == -((-x[1]) \div x[2])
Floor(x) == x[1] \div x[2]

\* a csv file: not there, or its rows
NoFile == [exists |-> FALSE]

\* my_etf_strategy.csv as etf.py writes it: a row per sector ETF that has
\* technicals, its Weight text and its Action; or no file
Etfs == <<"XLK", "XLF", "XLE", "XLV">>
EtfFiles ==
    {NoFile} \cup
    {[exists |-> TRUE,
      rows |-> [k \in 1..Len(Etfs) |->
                   [ETF |-> Etfs[k], Weight |-> <<R(25, 1), "%">>,
                    Action |-> IF k \in buy THEN "BUY" ELSE "WAIT"]]]
     : buy \in {{}, {2}, {1, 3}, {1, 2, 3, 4}}}

\* yf.Ticker(ticker).fast_info['last_price'] per ETF: Missing where the
\* lookup raises
LastPrices ==
    {[e \in {Etfs[k] : k \in 1..Len(Etfs)} |->
         IF e \in down THEN Missing
         ELSE IF e = "XLK" THEN R(7001, 1) ELSE IF e = "XLF" THEN R(4333, 100)
         ELSE R(90, 1)]
     : down \in {{}, {"XLF"}}}

RECURSIVE HighestUpside(_, _, _)
\* sort_values('Upside %', ascending=False).head(n) of the rows at the
\* indices among: rows of equal upside come in an order pandas leaves open
HighestUpside(rows, among, n) ==
    IF n = 0 \/ among = {} THEN {<< >>}
    ELSE UNION {{<<rows[k]>> \o rest : rest \in HighestUpside(rows, among \ {k}, n - 1)}
                : k \in {j \in among : \A m \in among : RLe(rows[m].Upside, rows[j].Upside)}}

\* orders.py part 1: the core bucket over the first three ETFs in the buy
\* zone, each at its last price or at 100 when the lookup raises
CoreOrders(etf_file, last_price) ==
    IF ~etf_file.exists THEN << >>
    ELSE LET buy == SelectSeq(etf_file.rows, LAMBDA row : row.Action = "BUY")
             top_etfs == SubSeq(buy, 1, IF Len(buy) < TopEtfs THEN Len(buy) ELSE TopEtfs)
         IN  IF buy = << >> THEN << >>
             ELSE LET capital_core == RMul(R(TOTAL_CAPITAL, 1), CORE_ALLOCATION)
                      allocation_per_etf == RDiv(capital_core, R(Len(top_etfs), 1))
                  IN  [k \in 1..Len(top_etfs) |->
                          LET ticker == top_etfs[k].ETF
                              price == IF last_price[ticker] = Missing THEN R(100, 1)
                                       ELSE last_price[ticker]
                              shares == Floor(RDiv(allocation_per_etf, price))
                              cost == RMul(R(shares, 1), price)
                          IN  [Type |-> "CORE (ETF)", Ticker |-> ticker,
                               Reason |-> <<"Sector Trend", top_etfs[k].Weight>>,
                               Shares |-> shares, Price |-> Round2(price),
                               Total_Cost |-> Round2(cost)]]

\* orders.py part 2: the satellite bucket over the five candidates, the
\* actionable rows with a safe rating, of the highest upside; the lists it
\* can come to
SatelliteOrders(stock_file) ==
    IF ~stock_file.exists THEN {<< >>}
    ELSE LET df_stocks == stock_file.rows
             capital_sat == RMul(R(TOTAL_CAPITAL, 1), SATELLITE_ALLOCATION)
             candidates ==
                 {k \in 1..Len(df_stocks) :
                     /\ df_stocks[k].Action \in {"STRONG_VALUE", "BUY_CANDIDATE", "BUY"}
                     /\ df_stocks[k].Rating \notin {"D", "CCC", "CC"}}
         IN  {[k \in 1..Len(top_stocks) |->
                  LET allocation_per_stock == RDiv(capital_sat, R(Len(top_stocks), 1))
                      row == top_stocks[k]
                      price == row.Current_Price
                      shares == Floor(RDiv(allocation_per_stock, price))
                      cost == RMul(R(shares, 1), price)
                  IN  [Type |-> "SATELLITE (Stock)", Ticker |-> row.Ticker,
                       Reason |-> <<"Value Gap", row.Upside>>,
                       Shares |-> shares, Price |-> Round2(price),
                       Total_Cost |-> Round2(cost)]]
              : top_stocks \in HighestUpside(df_stocks, candidates, TopStocks)}

\* engine.py generate_orders(): the 4000 of satellite capital over the five
\* BUY rows of the highest upside, astype(int) cutting the share count
\* towards zero; the lists it can come to
EngineOrders(df_) ==
    {[k \in 1..Len(buys) |->
         LET per_stock == RDiv(R(total_satellite_cap, 1), R(Len(buys), 1))
             q == RDiv(per_stock, buys[k].Current_Price)
             shares == IF q[1] >= 0 THEN q[1] \div q[2] ELSE -((-q[1]) \div q[2])
         IN  [Ticker |-> buys[k].Ticker, Shares |-> shares,
              Current_Price |-> buys[k].Current_Price,
              Cost |-> RMul(R(shares, 1), buys[k].Current_Price),
              Upside |-> buys[k].Upside, Rating |-> buys[k].Rating]]
     : buys \in HighestUpside(df_, {k \in 1..Len(df_) : df_[k].Action = "BUY"},
                               TopStocks)}

\* the rows a run of either file saved: the copy that ran last
SavedBy(copy) == ppc = "saved" /\ lastRun # NoRun /\ lastRun.copy = copy

\* engine.py generate_orders(): nothing is written when valuation.csv does
\* not parse (no row was saved) or holds no BUY row
generate_orders ==
    /\ SavedBy("engine")
    /\ ppc' = "ordered"
    /\ \E output \in EngineOrders(results) :
           orders' = IF output # << >> THEN output ELSE orders
    /\ UNCHANGED <<watch, results, seen, lastRun>>
    /\ UNCHANGED besidesOrders

\* orders.py __main__: the core part, the satellite part, and the ticket
\* saved when there is any order; the stock file is there when valuation.py
\* saved its rows
orders_main ==
    /\ \/ SavedBy("valuation")
       \/ ppc \in {"finished", "crashed"}
    /\ ppc' = "ordered"
    /\ \E etf_file \in EtfFiles, last_price \in LastPrices :
       \E satellite \in SatelliteOrders(IF ppc = "saved" THEN [exists |-> TRUE, rows |-> results]
                                       ELSE NoFile) :
           LET orders_ == CoreOrders(etf_file, last_price) \o satellite
           IN  orders' = IF orders_ # << >> THEN orders_ ELSE orders
    /\ UNCHANGED <<watch, results, seen, lastRun>>
    /\ UNCHANGED besidesOrders

\* The rows an earlier run over a longer watchlist left behind: per ticker
\* a price and a projected value above or below the buy threshold, and a
\* rating that is investment grade or not.
LongWatchlist == <<"GOOGL", "AAPL", "MSFT", "AMZN", "TSLA", "NVDA">>

SavedRows(copy) ==
    {[k \in 1..Len(LongWatchlist) |->
         LET price == <<R(48, 1), R(7, 1), R(100, 3), R(5000, 1), R(150, 1), R(800, 1)>>[k]
             gap == <<R(20, 100), R(20, 100), R(25, 100), R(30, 100), R(40, 100),
                      R(50, 100)>>[k]
             value == IF kind[k] = "dear" THEN RMul(price, R(115, 100))
                      ELSE RMul(price, RAdd(One, gap))
             w == [NoRet EXCEPT !.wacc = R(8, 100),
                                !.rating = IF kind[k] # "distressed" THEN "AAA"
                                           ELSE IF copy = "engine" THEN "D" ELSE "CC"]
         IN  IF copy = "engine" THEN EngineRow(LongWatchlist[k], price, value, w)
             ELSE ValuationRow(LongWatchlist[k], price, value, w, TechData)]
     : kind \in [1..Len(LongWatchlist) -> {"cheap", "dear", "distressed"}]}

\* an earlier run of engine.run_valuation() or of valuation.py saved rows
EarlierRun ==
    /\ ppc = "idle"
    /\ ppc' = "saved"
    /\ \E copy \in {"engine", "valuation"} :
           /\ results' \in SavedRows(copy)
           /\ lastRun' = [ticker |-> "none", stage |-> "earlier run", copy |-> copy]
    /\ UNCHANGED <<watch, seen>>
    /\ UNCHANGED besidesRun

-----------------------------------------------------------------------------
\* The portfolio database of database.py: the holdings table (ticker the
\* primary key, shares, avg_cost) and the history table (date, ticker,
\* action, shares, price).  A history row's date is the local time of the
\* call; the rows are kept in the order they were written.

TradeTickers == {"AAPL", "MSFT"}
TradePrices == {R(10, 1), R(20, 1)}
MaxTrades == 3

DbInit ==
    /\ dbpc = "absent"
    /\ holdings = << >>
    /\ history = << >>

\* init_db(): CREATE TABLE IF NOT EXISTS leaves the rows of a table that is
\* already there
init_db ==
    /\ dbpc' = "ready"
    /\ UNCHANGED <<holdings, history>>
    /\ UNCHANGED besidesDb

\* execute_trade(ticker, shares, price, action): curr is the holdings row of
\* the ticker, if any
execute_trade_AlwaysInsert(ticker, shares, price, action) ==
    /\ dbpc = "ready"
    /\ Len(history) < MaxTrades
    /\ LET held == {k \in 1..Len(holdings) : holdings[k].ticker = ticker}
           curr == holdings[CHOOSE k \in held : \A j \in held : k <= j]
           left == RSub(curr.shares, shares)
       IN  holdings' =
               IF action = "BUY"
               THEN Append(holdings, [ticker |-> ticker, shares |-> shares,
                                      avg_cost |-> price])
               ELSE IF action = "SELL" /\ held # {}
               THEN IF RLe(left, Zero)
                    THEN SelectSeq(holdings, LAMBDA row : row.ticker # ticker)
                    ELSE [k \in 1..Len(holdings) |->
                             IF k \in held
                             THEN [holdings[k] EXCEPT !.shares = left]
                             ELSE holdings[k]]
               ELSE holdings
    /\ history' = Append(history, [ticker |-> ticker, action |-> action,
                                   shares |-> shares, price |-> price])
    /\ UNCHANGED dbpc
    /\ UNCHANGED besidesDb

execute_trade(ticker, shares, price, action) ==
    /\ dbpc = "ready"
    /\ Len(history) < MaxTrades
    /\ LET held == {k \in 1..Len(holdings) : holdings[k].ticker = ticker}
           curr == holdings[CHOOSE k \in held : \A j \in held : k <= j]
           new_shares == RAdd(curr.shares, shares)
           new_cost == RDiv(RAdd(RMul(curr.shares, curr.avg_cost), RMul(shares, price)),
                            new_shares)
           left == RSub(curr.shares, shares)
       IN  holdings' =
               IF action = "BUY"
               THEN IF held # {}
                    THEN [k \in 1..Len(holdings) |->
                             IF k \in held
                             THEN [ticker |-> ticker, shares |-> new_shares,
                                   avg_cost |-> new_cost]
                             ELSE holdings[k]]
                    ELSE Append(holdings, [ticker |-> ticker, shares |-> shares,
                                           avg_cost |-> price])
               ELSE IF action = "SELL" /\ held # {}
               THEN IF RLe(left, Zero)
                    THEN SelectSeq(holdings, LAMBDA row : row.ticker # ticker)
                    ELSE [k \in 1..Len(holdings) |->
                             IF k \in held
                             THEN [holdings[k] EXCEPT !.shares = left]
                             ELSE holdings[k]]
               ELSE holdings
    /\ history' = Append(history, [ticker |-> ticker, action |-> action,
                                   shares |-> shares, price |-> price])
    /\ UNCHANGED dbpc
    /\ UNCHANGED besidesDb

\* a caller of execute_trade
Trade ==
    \E ticker \in TradeTickers, shares \in {R(1, 2), One, R(2, 1)},
       price \in TradePrices, action \in {"BUY", "SELL"} :
        execute_trade(ticker, shares, price, action)

-----------------------------------------------------------------------------
Init == WaccInit /\ DcfInit /\ RankInit /\ PipeInit /\ DbInit

Next ==
    \/ FetchTicker
    \/ CallValuationWacc
    \/ CallEngineWacc
    \/ NextTicker

Spec == Init /\ [][Next]_vars

NextDcf ==
    \/ ConstructValuation
    \/ ConstructEngine
    \/ EnterRunValuation
    \/ ProjectYear
    \/ DiscountYear
    \/ TerminalValue
    \/ Discard

SpecDcf == Init /\ [][NextDcf]_vars

NextTwice ==
    \/ ConstructForTwoCalls
    \/ EnterRunValuation
    \/ ProjectYear
    \/ DiscountYear
    \/ TerminalValue
    \/ CallAgain
    \/ CallOnTwin

SpecTwice == Init /\ [][NextTwice]_vars

NextRank ==
    \/ fetch_and_save
    \/ get_data
    \/ ProcessMomentum
    \/ ScoreAndSave

SpecRank == Init /\ [][NextRank]_vars

NextRun ==
    \/ EngineLoadWatchlist
    \/ EngineTicker
    \/ EngineSave
    \/ ValuationLoadWatchlist
    \/ ValuationTicker
    \/ ValuationSave
    \/ generate_orders
    \/ orders_main

SpecRun == Init /\ [][NextRun]_vars

NextOrders ==
    \/ EarlierRun
    \/ generate_orders
    \/ orders_main

SpecOrders == Init /\ [][NextOrders]_vars

NextDb ==
    \/ init_db
    \/ Trade

SpecDb == Init /\ [][NextDb]_vars

-----------------------------------------------------------------------------
(* Claims about calculate_synthetic_wacc *)

Called == wpc \in {"returned", "raised"}
Args == wcall.args

\* The rating table of the specification: exclusive lower bound, spread in
\* basis points, rating, from the highest tier to the lowest.
RatingTable ==
    << <<R(85, 10), 69, "AAA">>, <<R(65, 10), 85, "AA">>, <<R(55, 10), 107, "A+">>,
       <<R(425, 100), 118, "A">>, <<R(3, 1), 133, "A-">>, <<R(25, 10), 171, "BBB">>,
       <<R(225, 100), 231, "BB+">>, <<R(2, 1), 277, "BB">>, <<R(175, 100), 349, "B+">>,
       <<R(15, 10), 416, "B">>, <<R(125, 100), 577, "B-">>, <<R(8, 10), 827, "CCC">>,
       <<R(65, 100), 1347, "CC">> >>

TableTier(icr) ==
    LET above == {k \in 1..Len(RatingTable) : RGt(icr, RatingTable[k][1])}
    IN  IF above = {} THEN Tier(2000, "D")
        ELSE LET k == CHOOSE j \in above : \A i \in above : j <= i
             IN  Tier(RatingTable[k][2], RatingTable[k][3])

\* C1: for every ICR, both copies of calculate_synthetic_wacc return exactly
\* the {rating, spread} pair of the 14-tier table with exclusive lower bounds.
C1_FourteenTierTable ==
    wpc = "returned" =>
        /\ wret.rating = TableTier(wret.icr).rating
        /\ wret.spread = TableTier(wret.icr).spread

\* ICR values at which a second call is compared with the call made: every
\* quarter from 0 to MaxProbeQuarter / 4, and the sentinel.
MaxProbeQuarter == 36

IcrProbes == {R(k, 4) : k \in 0..MaxProbeQuarter} \cup {SentinelICR}

SpreadCurve ==
    {<<c, p, SpreadLookup(c, p).spread>> : c \in Copies, p \in IcrProbes}

\* C2: the spread never decreases as ICR decreases: for a < b the spread
\* returned for a is >= the spread returned for b, in both copies.
C2_SpreadMonotonic ==
    wpc = "returned" =>
        \A q \in SpreadCurve :
            q[1] = wcall.copy =>
                /\ RLt(q[2], wret.icr) => RLe(wret.spread, q[3])
                /\ RLt(wret.icr, q[2]) => RLe(q[3], wret.spread)

\* C2 witness: a call rated strictly below AAA and strictly above D has returned,
\* so both a lower and a higher spread exist on the curve.
C2_Witness ==
    /\ wpc = "returned"
    /\ wcall.copy = "engine"
    /\ wret.rating = "BB+"
    /\ \E q \in SpreadCurve : q[1] = "engine" /\ RLt(q[2], wret.icr) /\ RLt(wret.spread, q[3])
    /\ \E q \in SpreadCurve : q[1] = "engine" /\ RLt(wret.icr, q[2]) /\ RLt(q[3], wret.spread)

\* C3: icr = ebit / interest_expense when interest_expense > 0; the sentinel
\* icr = 100 (rating AAA, spread 0.0069) when interest_expense <= 0 whatever
\* ebit is; ebit <= 0 with positive interest expense is rated D.
C3_IcrAndSentinel ==
    wpc = "returned" =>
        /\ RGt(Args.interest_expense, Zero) =>
               /\ RMul(wret.icr, Args.interest_expense) = Args.ebit
               /\ RLe(Args.ebit, Zero) => wret.rating = "D"
        /\ RLe(Args.interest_expense, Zero) =>
               /\ wret.icr = R(100, 1)
               /\ wret.rating = "AAA"
               /\ wret.spread = R(69, 10000)

\* C3 witness: a call with negative interest expense and negative ebit returned.
C3_Witness ==
    /\ wpc = "returned"
    /\ RLt(Args.interest_expense, Zero)
    /\ RLt(Args.ebit, Zero)
    /\ wret.icr = R(100, 1)

\* C4: when market_cap + total_debt = 0 the call returns WACC = 0.08 exactly,
\* together with the spread, icr and rating that follow from ebit and
\* interest_expense.
C4_ZeroCapitalFallback ==
    (Called /\ RAdd(Args.market_cap, Args.total_debt) = Zero) =>
        /\ wpc = "returned"
        /\ wret.wacc = R(8, 100)
        /\ RGt(Args.interest_expense, Zero) =>
               RMul(wret.icr, Args.interest_expense) = Args.ebit
        /\ RLe(Args.interest_expense, Zero) => wret.icr = R(100, 1)
        /\ wret.spread = SpreadLookup(wcall.copy, wret.icr).spread
        /\ wret.rating = SpreadLookup(wcall.copy, wret.icr).rating

\* C4 witness: market_cap = -total_debt, both non-zero, and the call returned.
C4_Witness ==
    /\ wpc = "returned"
    /\ Args.market_cap # Zero
    /\ RAdd(Args.market_cap, Args.total_debt) = Zero
    /\ wret.rating = "B"

\* The beta of the function: the argument in engine.py (1.1 when the ticker
\* has none), the local beta = 1.1 in valuation.py.
FunctionBeta ==
    IF wcall.copy = "engine" /\ Args.beta # Missing THEN Args.beta ELSE R(11, 10)

Scenario1 ==
    [ebit |-> R(150, 1), interest_expense |-> R(15, 1), total_debt |-> R(200, 1),
     market_cap |-> R(1000, 1), tax_rate |-> R(21, 100), risk_free_rate |-> R(42, 1000),
     beta |-> R(11, 10)]

\* C5: when market_cap + total_debt # 0, WACC = (rf + beta*0.05) * mc/(mc+td)
\* + (rf + spread)*(1 - tax) * td/(mc+td); scenario 1 gives ICR 10, AAA,
\* spread 0.0069 and WACC 0.0873 to four decimals.
C5_WaccFormula ==
    (Called /\ RAdd(Args.market_cap, Args.total_debt) # Zero) =>
        LET tc == RAdd(Args.market_cap, Args.total_debt)
            rf == Args.risk_free_rate
            equity == RMul(RAdd(rf, RMul(FunctionBeta, R(5, 100))), RDiv(Args.market_cap, tc))
            debt == RMul(RMul(RAdd(rf, wret.spread), RSub(One, Args.tax_rate)),
                         RDiv(Args.total_debt, tc))
        IN  /\ wpc = "returned"
            /\ wret.wacc = RAdd(equity, debt)
            /\ Args = Scenario1 =>
                   /\ wret.icr = R(10, 1)
                   /\ wret.rating = "AAA"
                   /\ wret.spread = R(69, 10000)
                   /\ RLe(R(8725, 100000), wret.wacc)
                   /\ RLt(wret.wacc, R(8735, 100000))

\* C5 witness: scenario 1 has been computed by the engine.py copy.
C5_Witness ==
    /\ wpc = "returned"
    /\ wcall.copy = "engine"
    /\ Args = Scenario1

\* The beta the ticker supplies, 1.1 when it is unknown.
TickerBeta == IF Args.beta = Missing THEN R(11, 10) ELSE Args.beta

\* C6: the cost of equity uses the ticker's supplied beta (1.1 only when
\* unknown), so two tickers that differ only in beta, with market_cap > 0,
\* get different WACCs in every valuation path.
C6_TickerBetaUsed ==
    (wpc = "returned" /\ RGt(Args.market_cap, Zero)) =>
        \A b \in BetaSet \ {Missing} :
            b # TickerBeta =>
                calculate_synthetic_wacc(wcall.copy, [Args EXCEPT !.beta = b]).wacc # wret.wacc

\* C7: calculate_synthetic_wacc never raises: every call, whatever the sign
\* of its inputs and also with market_cap = -total_debt, returns the tuple.
C7_NeverRaises ==
    Called =>
        /\ wpc = "returned"
        /\ ~wret.raised
        /\ wret.wacc # Err /\ wret.spread # Err /\ wret.icr # Err
        /\ wret.rating # "none"

\* C7 witness: zero interest expense, zero ebit, market_cap = -total_debt # 0.
C7_Witness ==
    /\ wpc = "returned"
    /\ Args.interest_expense = Zero
    /\ Args.ebit = Zero
    /\ Args.total_debt # Zero
    /\ RAdd(Args.market_cap, Args.total_debt) = Zero

-----------------------------------------------------------------------------
(* Claims about DamodaranGinzuValuation.run_valuation *)

Finished == dpc \in {"done", "raised"}
Numeric == dpc = "done" /\ result.kind \in {"dict", "float"}

\* C8: run_valuation returns None, and neither raises nor returns a number,
\* whenever current revenue <= 0 or shares outstanding <= 0, in both projectors.
C8_NullSentinel ==
    (Finished /\ (RLe(inst.rev_0, Zero) \/ RLe(inst.shares, Zero))) =>
        /\ dpc = "done"
        /\ result = NoneResult

\* C9: the intrinsic value per share is never negative: it is
\* max(0, equity_value / shares_outstanding).
C9_ValueClamped ==
    Numeric =>
        /\ RLe(Zero, result.value)
        /\ RLe(RDiv(loc.equity_value, inst.shares), Zero) => result.value = Zero

\* C10: the terminal value is terminal FCFF over (wacc_stable - stable_growth),
\* or over 0.05 when that difference is <= 0.001; the step never divides by
\* zero and never by a negative denominator.
TerminalEpsilon == R(1, 1000)
TerminalFloor == R(5, 100)

C10_TerminalGuard ==
    /\ ~(dpc = "raised" /\ result.at = "terminal")
    /\ Numeric =>
           LET gap == RSub(inst.wacc_stable, inst.g_stable)
               denominator == IF RLe(gap, TerminalEpsilon) THEN TerminalFloor ELSE gap
           IN  loc.terminal_value = RDiv(loc.terminal_fcff, denominator)

\* The optional constructor arguments: engine.py has neither, which is the
\* default 0 of both.
MinorityInterests == IF IsValuation(inst) THEN inst.minority_interests ELSE Zero
NonOperatingAssets == IF IsValuation(inst) THEN inst.non_op_assets ELSE Zero

RECURSIVE SumOfPvFcff(_)
SumOfPvFcff(n) ==
    IF n = 0 THEN Zero
    ELSE RAdd(SumOfPvFcff(n - 1), RMul(df[n].FCFF, df[n].Cum_Discount_Factor))

\* C11: equity value = sum of PV_FCFF over years 1..N + PV_terminal + cash
\* + non-operating assets - debt - minority interests, with PV_terminal =
\* terminal_value * cumulative_discount(N) and terminal FCFF =
\* EBIT_after_tax(N) * (1 + g_stable) * (1 - g_stable / wacc_stable).
C11_EquityValue ==
    Numeric =>
        LET n == inst.terminal_year
        IN  /\ Len(df) = n
            /\ \A y \in 1..n :
                   /\ df[y].PV_FCFF = RMul(df[y].FCFF, df[y].Cum_Discount_Factor)
                   /\ RMul(df[y].Cum_Discount_Factor, RAdd(One, df[y].WACC)) =
                          (IF y = 1 THEN One ELSE df[y - 1].Cum_Discount_Factor)
            /\ loc.terminal_fcff =
                   RMul(RMul(df[n].EBIT_1_t, RAdd(One, inst.g_stable)),
                        RSub(One, RDiv(inst.g_stable, inst.wacc_stable)))
            /\ loc.pv_terminal = RMul(loc.terminal_value, df[n].Cum_Discount_Factor)
            /\ loc.equity_value =
                   RSub(RSub(RAdd(RAdd(RAdd(SumOfPvFcff(n), loc.pv_terminal), inst.cash),
                                  NonOperatingAssets),
                             inst.debt),
                        MinorityInterests)

\* C11 witness: a valuation.py run with non-zero minority interests, non-zero
\* non-operating assets, non-zero debt and a non-zero terminal value returned.
C11_Witness ==
    /\ Numeric
    /\ IsValuation(inst)
    /\ inst.minority_interests # Zero
    /\ inst.non_op_assets # Zero
    /\ inst.debt # Zero
    /\ loc.pv_terminal # Zero
    /\ inst.terminal_year = DefaultTerminalYear

\* One growth rate and one discount rate: growth_high = growth_stable and
\* wacc_initial = wacc_stable.
ConstantRates == inst.g_high = inst.g_stable /\ inst.wacc_high = inst.wacc_stable
ConstantMargin == RDiv(inst.ebit_0, inst.rev_0) = inst.target_margin
ConstantTax ==
    inst.tax_initial = (IF IsValuation(inst) THEN inst.tax_marginal ELSE R(25, 100))

\* growth g and discount rate w are applied in every year 1..N
AppliesConstantRates ==
    \A y \in 1..inst.terminal_year :
        /\ df[y].Growth_Rate = inst.g_stable
        /\ df[y].Revenue =
               RMul(IF y = 1 THEN inst.rev_0 ELSE df[y - 1].Revenue, RAdd(One, inst.g_stable))
        /\ df[y].WACC = inst.wacc_stable
        /\ RMul(df[y].Cum_Discount_Factor, RAdd(One, inst.wacc_stable)) =
               (IF y = 1 THEN One ELSE df[y - 1].Cum_Discount_Factor)

\* FCFF is multiplied by k from each year to the next
FcffGrowsBy(k) ==
    \A y \in 1..(inst.terminal_year - 1) : df[y + 1].FCFF = RMul(df[y].FCFF, k)

FirstFcffRatio ==
    IF inst.terminal_year >= 2 /\ df[1].FCFF # Zero THEN RDiv(df[2].FCFF, df[1].FCFF)
    ELSE Zero

OperatingAssetsValue == RAdd(SumOfPvFcff(inst.terminal_year), loc.pv_terminal)

\* FCFF(1) / (w - g)
GrowingPerpetuity == RDiv(df[1].FCFF, RSub(inst.wacc_stable, inst.g_stable))

\* C12 as stated: with growth_high = growth_stable = g and wacc_initial =
\* wacc_stable = w the projector applies g and w in every year, FCFF grows at a
\* constant rate from year to year, and the value of the operating assets is
\* the single-stage growing perpetuity FCFF(1) / (w - g).
C12_SingleStagePerpetuity ==
    (Numeric /\ ConstantRates) =>
        /\ AppliesConstantRates
        /\ FcffGrowsBy(FirstFcffRatio)
        /\ OperatingAssetsValue = GrowingPerpetuity

\* C12 amended: with growth_high = growth_stable = g and wacc_initial =
\* wacc_stable = w the projector applies g and w in every year; when moreover
\* the margin and the tax rate do not move (EBIT0 / revenue0 = target margin,
\* initial tax = marginal tax) FCFF grows by 1 + g from year to year; and when
\* moreover the terminal FCFF continues that growth (it equals
\* FCFF(N) * (1 + g), as for g = 0) the value of the operating assets is
\* FCFF(1) / (w - g).
C12_ConstantRates ==
    (Numeric /\ ConstantRates) =>
        /\ AppliesConstantRates
        /\ (ConstantMargin /\ ConstantTax) => FcffGrowsBy(RAdd(One, inst.g_stable))
        /\ (/\ ConstantMargin
            /\ ConstantTax
            /\ loc.terminal_fcff =
                   RMul(df[inst.terminal_year].FCFF, RAdd(One, inst.g_stable))) =>
               OperatingAssetsValue = GrowingPerpetuity

\* C12 witness: a run of two years or more with g # 0, a constant margin and
\* tax rate and a terminal FCFF that continues the growth has returned.
C12_Witness ==
    /\ Numeric
    /\ ConstantRates
    /\ ConstantMargin
    /\ ConstantTax
    /\ inst.g_stable # Zero
    /\ inst.terminal_year >= 2
    /\ df[1].FCFF # Zero
    /\ loc.terminal_fcff = RMul(df[inst.terminal_year].FCFF, RAdd(One, inst.g_stable))
    /\ OperatingAssetsValue = GrowingPerpetuity

-----------------------------------------------------------------------------
(* Claims about the factor ranking *)

Ranked == rpc = "ranked"
InUnitRange(x) == x # Missing /\ RLe(Zero, x) /\ RLe(x, R(100, 1))

\* C13: in every row of every ranking run TOTAL_SCORE = 0.40 * value_score +
\* 0.40 * trend_score + 0.20 * quality_score and TOTAL_SCORE is a number in
\* [0, 100], also in rows whose pe_ratio or profit_margin is missing.
C13_TotalScoreInRange ==
    Ranked =>
        \A k \in 1..Len(df_final) :
            LET row == df_final[k]
            IN  /\ InUnitRange(row.TOTAL_SCORE)
                /\ row.TOTAL_SCORE =
                       RAdd(RAdd(RMul(R(40, 100), row.value_score),
                                 RMul(R(40, 100), row.trend_score)),
                            RMul(R(20, 100), row.quality_score))

\* the columns of a ranked row that come from the tables
InputRow(row) ==
    [ticker |-> row.ticker, pe_ratio |-> row.pe_ratio,
     profit_margin |-> row.profit_margin, market_cap |-> row.market_cap,
     current_price |-> row.current_price, sma_200 |-> row.sma_200,
     momentum_pct |-> row.momentum_pct]

RECURSIVE InputRows(_)
InputRows(frame) ==
    IF frame = << >> THEN << >> ELSE <<InputRow(Head(frame))>> \o InputRows(Tail(frame))

RECURSIVE Permuted(_, _, _)
Permuted(rows, order, n) ==
    IF n = 0 THEN << >> ELSE Append(Permuted(rows, order, n - 1), rows[order[n]])

RECURSIVE Renamed(_, _)
Renamed(table, name) ==
    IF table = << >> THEN << >>
    ELSE <<[Head(table) EXCEPT !.ticker = name[@]]>> \o Renamed(Tail(table), name)

\* the four scores a frame gives a ticker
ScoresOf(frame, ticker) ==
    LET row == frame[CHOOSE k \in 1..Len(frame) : frame[k].ticker = ticker]
    IN  <<row.value_score, row.quality_score, row.trend_score, row.TOTAL_SCORE>>

TickerNames == {MasterTickers[k] : k \in 1..Len(MasterTickers)}

SameScores(frame, name) ==
    /\ Len(frame) = Len(df_final)
    /\ \A k \in 1..Len(df_final) :
           ScoresOf(frame, name[df_final[k].ticker]) = ScoresOf(df_final, df_final[k].ticker)

\* C14: a ticker's scores depend only on the values in the run and on its own:
\* ranking the same rows in any other order, or the same tables under any
\* renaming of the tickers, gives every ticker the same value_score,
\* quality_score, trend_score and TOTAL_SCORE, and rows with equal values get
\* the same percentile.
C14_OrderIndependent ==
    Ranked =>
        LET rows == InputRows(df_final)
            n == Len(rows)
            same == [t \in TickerNames |-> t]
        IN  /\ \A order \in Permutations(1..n) :
                   SameScores(Scored(Permuted(rows, order, n)), same)
            /\ \A name \in Permutations(TickerNames) :
                   SameScores(Scored(Merge(Renamed(fundamentals, name),
                                           calculate_momentum(Renamed(prices, name)))),
                              name)
            /\ \A i, j \in 1..n :
                   /\ rows[i].pe_ratio = rows[j].pe_ratio =>
                          df_final[i].value_score = df_final[j].value_score
                   /\ rows[i].profit_margin = rows[j].profit_margin =>
                          df_final[i].quality_score = df_final[j].quality_score
                   /\ rows[i].momentum_pct = rows[j].momentum_pct =>
                          df_final[i].trend_score = df_final[j].trend_score

\* C14 witness: three tickers are ranked, two of them tie on P/E and share a
\* percentile, and the ranking lists them in another order than the table.
C14_Witness ==
    /\ Ranked
    /\ Len(df_final) = 3
    /\ \E i, j \in 1..3 :
           /\ i # j
           /\ df_final[i].pe_ratio = df_final[j].pe_ratio
           /\ df_final[i].pe_ratio # Missing
           /\ df_final[i].value_score = df_final[j].value_score
           /\ df_final[i].TOTAL_SCORE # df_final[j].TOTAL_SCORE
    /\ df_final[1].ticker # fundamentals[1].ticker

\* C15: when the ranking population is exactly one ticker, its value_score,
\* quality_score and trend_score are all 100 and its TOTAL_SCORE is 100.
C15_SingletonScores100 ==
    (Ranked /\ Len(df_final) = 1) =>
        /\ df_final[1].value_score = R(100, 1)
        /\ df_final[1].quality_score = R(100, 1)
        /\ df_final[1].trend_score = R(100, 1)
        /\ df_final[1].TOTAL_SCORE = R(100, 1)

\* Strict comparisons within the batch; a row is compared with the rows that
\* have a value in the column.
StrictlyLowest(i, name) ==
    /\ df_final[i][name] # Missing
    /\ \A j \in 1..Len(df_final) :
           (j # i /\ df_final[j][name] # Missing) =>
               RLt(df_final[i][name], df_final[j][name])

StrictlyHighest(i, name) ==
    /\ df_final[i][name] # Missing
    /\ \A j \in 1..Len(df_final) :
           (j # i /\ df_final[j][name] # Missing) =>
               RGt(df_final[i][name], df_final[j][name])

BestOnAll(i) ==
    /\ StrictlyLowest(i, "pe_ratio")
    /\ StrictlyHighest(i, "profit_margin")
    /\ StrictlyHighest(i, "momentum_pct")

WorstOnAll(i) ==
    /\ StrictlyHighest(i, "pe_ratio")
    /\ StrictlyLowest(i, "profit_margin")
    /\ StrictlyLowest(i, "momentum_pct")

\* the batch of scenario 3, in table order
Scenario3 ==
    << <<"T1", R(10, 1), R(30, 100), R(10, 100)>>,
       <<"T2", R(20, 1), R(20, 100), R(5, 100)>>,
       <<"T3", R(30, 1), R(10, 100), Zero>> >>

IsScenario3 ==
    /\ Len(fundamentals) = 3
    /\ Len(df_final) = 3
    /\ \A k \in 1..3 :
           /\ fundamentals[k].ticker = Scenario3[k][1]
           /\ fundamentals[k].pe_ratio = Scenario3[k][2]
           /\ fundamentals[k].profit_margin = Scenario3[k][3]
           /\ \E j \in 1..3 :
                  /\ df_final[j].ticker = Scenario3[k][1]
                  /\ df_final[j].momentum_pct = Scenario3[k][4]

\* C16: the ticker with the strictly lowest P/E has value_score 100; a ticker
\* with the strictly lowest P/E, the strictly highest margin and the strictly
\* highest momentum has the strictly highest TOTAL_SCORE, and the ticker
\* worst on all three the strictly lowest; in scenario 3 ticker 1 is highest
\* and ticker 3 lowest.
C16_BestAndWorst ==
    Ranked =>
        /\ \A i \in 1..Len(df_final) :
               /\ StrictlyLowest(i, "pe_ratio") => df_final[i].value_score = R(100, 1)
               /\ BestOnAll(i) => StrictlyHighest(i, "TOTAL_SCORE")
               /\ WorstOnAll(i) => StrictlyLowest(i, "TOTAL_SCORE")
        /\ IsScenario3 =>
               /\ df_final[1].ticker = "T1"
               /\ df_final[1].value_score = R(100, 1)
               /\ StrictlyHighest(1, "TOTAL_SCORE")
               /\ df_final[3].ticker = "T3"
               /\ StrictlyLowest(3, "TOTAL_SCORE")

\* C16 witness: scenario 3 has been ranked.
C16_Witness ==
    /\ Ranked
    /\ IsScenario3
    /\ BestOnAll(1)
    /\ WorstOnAll(3)

HistoryOf(t) ==
    LET rows == SelectSeq(prices, LAMBDA p : p.ticker = t)
    IN  IF rows = << >> THEN << >> ELSE rows[1].closes

HasFundamentals(t) == \E k \in 1..Len(fundamentals) : fundamentals[k].ticker = t
IsRanked(t) == \E k \in 1..Len(df_final) : df_final[k].ticker = t

\* C17: a ticker is in the ranking exactly when it has a fundamentals row and
\* at least 200 closes; with exactly 200 closes its momentum is (last close -
\* mean of the 200) / mean of the 200; with fewer it is absent and the other
\* tickers' percentiles are taken over the population without it.
C17_AtLeast200Closes ==
    (rpc \in {"ranked", "raised"}) =>
        \A t \in TickerNames :
            LET closes == HistoryOf(t)
                sma == RDiv(SumOfLast(closes, 200), R(200, 1))
            IN  /\ (rpc = "ranked" /\ IsRanked(t)) <=>
                       (HasFundamentals(t) /\ NumCloses(closes) >= 200)
                /\ (rpc = "ranked" /\ IsRanked(t)) =>
                       \E k \in 1..Len(df_final) :
                           /\ df_final[k].ticker = t
                           /\ df_final[k].momentum_pct =
                                  RDiv(RSub(LastClose(closes), sma), sma)

-----------------------------------------------------------------------------
(* Claims about the watchlist runs *)

RowsOf(ticker) == {k \in 1..Len(results) : results[k].Ticker = ticker}
IsNumber(x) == x \notin {Err, Missing, Null, TypeError}
NumericRow(row) ==
    /\ IsNumber(row.Upside)
    /\ IsNumber(row.Current_Price)
    /\ IsNumber(row.Fair_Value)
    /\ IsNumber(row.WACC[1])
RunOver == ppc \in {"saved", "finished"}

\* C18: a ticker that cannot be valued contributes no row and does not stop
\* the run: the run never ends on an exception, and when it is over every
\* ticker of the watchlist has been gone through, each ticker the projector
\* valued has exactly one row, each other ticker none, and rows hold numbers.
C18_UnvaluableTickerSkipped ==
    /\ ppc # "crashed"
    /\ RunOver =>
           /\ Len(seen) = Len(MyWatchlist)
           /\ \A k \in 1..Len(seen) :
                  Cardinality(RowsOf(seen[k].ticker)) = IF seen[k].valued THEN 1 ELSE 0
           /\ \A k \in 1..Len(results) : NumericRow(results[k])

\* the ticker gone through last had revenue, shares and price (and, in
\* valuation.py, technical data), and fetching it did not raise
Valuable(left) ==
    /\ left.stage # "none"
    /\ ~left.ans.raises
    /\ Truthy(Get(left.ans.totalRevenue))
    /\ Truthy(Get(left.ans.sharesOutstanding))
    /\ Truthy(Get(left.ans.currentPrice))
    /\ left.copy = "valuation" => left.tech # TechNone
Coerced(x, default) == IF IsNone(x) THEN default ELSE x

\* C19: a ticker with revenue, shares and price present is valued, not
\* skipped and not raising, with a missing cash or debt figure taken as 0.0,
\* a missing tax rate as 0.21 and a missing beta as 1.1 by the WACC
\* calculator and the projector.
C19_MissingFiguresCoerced ==
    Valuable(lastRun) =>
        /\ Valued(lastRun)
        /\ lastRun.args.total_debt = Coerced(lastRun.ans.totalDebt, Zero)
        /\ lastRun.inst.debt = Coerced(lastRun.ans.totalDebt, Zero)
        /\ lastRun.inst.cash = Coerced(lastRun.ans.totalCash, Zero)
        /\ ~lastRun.ans.income => lastRun.args.tax_rate = DefaultTaxRate
        /\ IsNone(lastRun.ans.beta) =>
               BetaUsed(lastRun.copy, lastRun.args.beta) = DefaultBeta

-----------------------------------------------------------------------------
(* Claims about calling run_valuation again *)

Running == dpc \in {"built", "loop", "discount", "terminal"}
Over == dpc \in {"done", "raised"}
SecondCallOver == earlier # NoEarlier /\ Over

\* C20: run_valuation leaves the instance as the constructor made it, a
\* second call on the same instance or on an instance built from the same
\* inputs returns (or raises) what the first did, and the schedule of a call
\* that returned a value holds the rows of that call only.
C20_RunValuationDeterministic ==
    /\ [][Running => inst' = inst]_vars
    /\ [](SecondCallOver => result = earlier.result /\ inst = earlier.inst)
    /\ [](dpc = "done" /\ result # NoneResult => Len(df) = inst.terminal_year)

C20_Witness ==
    /\ SecondCallOver
    /\ earlier.how = "same instance"
    /\ result.kind \in {"dict", "float"}
    /\ result.value # Zero

-----------------------------------------------------------------------------
(* Claims about the projection schedule *)

\* the year up to which growth stays high: engine.py has the literal 5
ConvergenceYear(i) == IF IsValuation(i) THEN i.convergence_year ELSE FadeYears

\* the growth of a year as the schedule is described: high up to the
\* convergence year, then down by an equal step per year over the
\* remaining N - convergence_year years
DescribedGrowth(i, year) ==
    IF year <= ConvergenceYear(i) THEN i.g_high
    ELSE RSub(i.g_high,
              RMul(R(year - ConvergenceYear(i), 1),
                   RDiv(RSub(i.g_high, i.g_stable),
                        R(i.terminal_year - ConvergenceYear(i), 1))))

\* once run_valuation is over, every row it wrote has the described growth,
\* and its revenue is the revenue of the year before times 1 + growth
GrowthRows ==
    Finished => \A year \in 1..Len(df) :
        /\ df[year].Growth_Rate = DescribedGrowth(inst, year)
        /\ df[year].Revenue =
               RMul(IF year = 1 THEN inst.rev_0 ELSE df[year - 1].Revenue,
                    RAdd(One, df[year].Growth_Rate))

TerminalRowWritten == inst # NoInstance /\ Len(df) >= inst.terminal_year

\* C21 as stated: growth is high up to the convergence year and fades
\* linearly afterwards, revenue compounds, and the growth of year N is
\* the stable growth.
C21_GrowthReachesStable ==
    /\ GrowthRows
    /\ TerminalRowWritten => df[inst.terminal_year].Growth_Rate = inst.g_stable

\* C21 amended: as stated, the growth of year N being the stable growth
\* whenever the convergence year lies before N; with the convergence year
\* at or after N every year has the high growth.
C21_GrowthFade ==
    /\ GrowthRows
    /\ TerminalRowWritten =>
           df[inst.terminal_year].Growth_Rate =
               IF ConvergenceYear(inst) < inst.terminal_year
               THEN inst.g_stable ELSE inst.g_high

C21_Witness ==
    /\ Finished
    /\ TerminalRowWritten
    /\ ConvergenceYear(inst) >= 1
    /\ ConvergenceYear(inst) < inst.terminal_year
    /\ inst.g_high # inst.g_stable
    /\ df[ConvergenceYear(inst)].Growth_Rate = inst.g_high
    /\ df[inst.terminal_year].Growth_Rate = inst.g_stable

BaseMargin(i) == RDiv(i.ebit_0, i.rev_0)

\* the same constructor arguments with another convergence year
OtherConvergenceYears(i) ==
    IF IsValuation(i)
    THEN {[i EXCEPT !.convergence_year = c] : c \in 0..MaxTerminalYear}
    ELSE {i}

\* C22: once run_valuation is over, the margin of every year written is
\* base_margin + year * (target_margin - base_margin) / N with
\* base_margin = EBIT0 / revenue0, it is the target margin in year N, and
\* it is the same for every convergence year.
C22_MarginFade ==
    Finished => \A year \in 1..Len(df) :
        /\ df[year].EBIT_Margin =
               RAdd(BaseMargin(inst),
                    RDiv(RMul(R(year, 1), RSub(inst.target_margin, BaseMargin(inst))),
                         R(inst.terminal_year, 1)))
        /\ year = inst.terminal_year => df[year].EBIT_Margin = inst.target_margin
        /\ \A j \in OtherConvergenceYears(inst) :
               EBIT_Margin(j, year) = df[year].EBIT_Margin

C22_Witness ==
    /\ Finished
    /\ TerminalRowWritten
    /\ IsValuation(inst)
    /\ inst.terminal_year >= 2
    /\ inst.convergence_year < inst.terminal_year
    /\ BaseMargin(inst) # inst.target_margin
    /\ df[1].EBIT_Margin # inst.target_margin
    /\ df[inst.terminal_year].EBIT_Margin = inst.target_margin

\* the same constructor arguments with other convergence and terminal years
OtherHorizons(i) ==
    IF IsValuation(i)
    THEN {[i EXCEPT !.convergence_year = c, !.terminal_year = n] :
              c \in 0..MaxTerminalYear, n \in 1..MaxTerminalYear}
    ELSE {i}

\* C23: once run_valuation is over, the WACC of every year written is
\* wacc_initial up to year 5 and
\* wacc_initial - (year - 5) * (wacc_initial - wacc_stable) / 5 in years 6
\* to 10, wacc_stable in year 10, and the same whatever the convergence year
\* and the terminal year.
C23_WaccFade ==
    Finished => \A year \in 1..Len(df) :
        /\ year <= 5 => df[year].WACC = inst.wacc_high
        /\ year \in 6..10 =>
               df[year].WACC =
                   RSub(inst.wacc_high,
                        RDiv(RMul(R(year - 5, 1), RSub(inst.wacc_high, inst.wacc_stable)),
                             R(5, 1)))
        /\ year = 10 => df[year].WACC = inst.wacc_stable
        /\ \A j \in OtherHorizons(inst) : YearWACC(j, year) = df[year].WACC

C23_Witness ==
    /\ Finished
    /\ Len(df) = 10
    /\ inst.wacc_high # inst.wacc_stable
    /\ df[5].WACC = inst.wacc_high
    /\ df[6].WACC # inst.wacc_high
    /\ df[10].WACC = inst.wacc_stable

\* The years the discounting has gone through: every row of engine.py's
\* single pass; in valuation.py the rows whose placeholder 0 the second
\* pass has overwritten.
DiscountedYears ==
    {year \in 1..Len(df) : ~IsValuation(inst) \/ df[year].Cum_Discount_Factor # Zero}

\* the product of 1 / (1 + wacc(k)) for k = 1..t, the WACC schedule being
\* that of copy
RECURSIVE DiscountProduct(_, _)
DiscountProduct(copy, t) ==
    IF t = 0 THEN One
    ELSE RMul(DiscountProduct(copy, t - 1),
              RDiv(One, RAdd(One, YearWACC([inst EXCEPT !.copy = copy], t))))

\* C24: once run_valuation is over, the cumulative discount factor of year
\* t is the product of
\* 1 / (1 + wacc(k)) for k = 1..t, the same under either copy's pass;
\* PV_FCFF(t) = FCFF(t) * factor(t); and when the WACC of every year up to
\* t is positive the factor is below that of the year before and lies
\* strictly between 0 and 1.
C24_CumulativeDiscount ==
    Finished => \A t \in DiscountedYears :
        /\ \A copy \in Copies : df[t].Cum_Discount_Factor = DiscountProduct(copy, t)
        /\ df[t].PV_FCFF = RMul(df[t].FCFF, df[t].Cum_Discount_Factor)
        /\ (\A k \in 1..t : RGt(df[k].WACC, Zero)) =>
               /\ RGt(df[t].Cum_Discount_Factor, Zero)
               /\ RLt(df[t].Cum_Discount_Factor, One)
               /\ RLt(df[t].Cum_Discount_Factor,
                      IF t = 1 THEN One ELSE df[t - 1].Cum_Discount_Factor)

C24_Witness ==
    /\ dpc = "done"
    /\ IsValuation(inst)
    /\ DiscountedYears = 1..inst.terminal_year
    /\ inst.terminal_year >= 2
    /\ \A k \in 1..Len(df) : RGt(df[k].WACC, Zero)
    /\ RLt(df[2].Cum_Discount_Factor, df[1].Cum_Discount_Factor)

RaisedInLoop == dpc = "raised" /\ result = Raised("loop")

\* C25: in every year written reinvestment is the revenue increase divided
\* by the sales-to-capital ratio and FCFF is EBIT * (1 - tax) less
\* reinvestment; with a sales-to-capital ratio of zero neither projector
\* raises in the projection loop.
C25_ReinvestmentAndFcff ==
    /\ \A year \in 1..Len(df) :
           /\ inst.sales_to_cap # Zero =>
                  df[year].Reinvestment =
                      RDiv(RSub(df[year].Revenue,
                                IF year = 1 THEN inst.rev_0 ELSE df[year - 1].Revenue),
                           inst.sales_to_cap)
           /\ df[year].FCFF =
                  RSub(RMul(df[year].EBIT, RSub(One, df[year].Tax_Rate)),
                       df[year].Reinvestment)
    /\ inst # NoInstance /\ inst.sales_to_cap = Zero => ~RaisedInLoop

\* x lies in the closed interval between a and b, whichever is the larger
Between(x, a, b) == (RLe(a, x) /\ RLe(x, b)) \/ (RLe(b, x) /\ RLe(x, a))

\* C26: the WACC of every year written lies between wacc_initial and
\* wacc_stable, and the WACC of the terminal year N is the wacc_stable of
\* the terminal-value formula.
C26_WaccEndsAtStable ==
    \A year \in 1..Len(df) :
        /\ Between(df[year].WACC, inst.wacc_high, inst.wacc_stable)
        /\ year = inst.terminal_year => df[year].WACC = inst.wacc_stable

-----------------------------------------------------------------------------
\* Claims about the order lists and the portfolio database

UnsafeRatings == {"D", "CC", "CCC"}
\* the upside of a saved row, from its fair value and its price
UpsideOf(row) == RDiv(RSub(row.Fair_Value, row.Current_Price), row.Current_Price)
\* the saved rows of a ticker
RowsFor(ticker) == {k \in 1..Len(results) : results[k].Ticker = ticker}
\* the orders for stocks: all of generate_orders' list, the satellite part
\* of orders.py's
StockOrders ==
    {k \in 1..Len(orders) :
        "Type" \in DOMAIN orders[k] => orders[k].Type = "SATELLITE (Stock)"}
Ordered == ppc = "ordered"

CoreOrderSet == {k \in 1..Len(orders) : "Type" \in DOMAIN orders[k] /\ orders[k].Type = "CORE (ETF)"}
CostOf(o) == IF "Cost" \in DOMAIN o THEN o.Cost ELSE o.Total_Cost
RECURSIVE TotalCost(_)
TotalCost(among) ==
    IF among = {} THEN Zero
    ELSE LET k == CHOOSE j \in among : TRUE
         IN  RAdd(CostOf(orders[k]), TotalCost(among \ {k}))
\* the equal share of a bucket
ShareOf(bucket, n) == RDiv(bucket, R(n, 1))
CoreBucket == RMul(R(TOTAL_CAPITAL, 1), R(60, 100))
SatelliteBucket == RMul(R(TOTAL_CAPITAL, 1), R(40, 100))
\* the saved rows that are candidates for a stock order, and those ordered
BuyRows == {k \in 1..Len(results) : results[k].Action = "BUY"}
OrderedRows == {k \in BuyRows : \E o \in StockOrders : orders[o].Ticker = results[k].Ticker}
\* the list just written by the generator: on the saved rows, which all
\* carry positive prices
JustOrdered == Ordered /\ orders # << >>

\* C28: the order list never over-spends: at most 3 ETF orders and at most 5
\* stock orders, each of whole shares and costing at most the equal share of
\* its bucket, so the core orders total at most 60% of TOTAL_CAPITAL, the
\* stock orders at most 40% (4000 in engine.generate_orders) and all orders
\* at most TOTAL_CAPITAL; the stock orders are the candidates of the highest
\* upside
C28_NeverOverSpends ==
    JustOrdered =>
        /\ Cardinality(CoreOrderSet) <= 3
        /\ Cardinality(StockOrders) <= 5
        /\ \A k \in 1..Len(orders) : orders[k].Shares \in Nat
        /\ \A k \in CoreOrderSet :
               RLe(CostOf(orders[k]), ShareOf(CoreBucket, Cardinality(CoreOrderSet)))
        /\ \A k \in StockOrders :
               RLe(CostOf(orders[k]), ShareOf(SatelliteBucket, Cardinality(StockOrders)))
        /\ RLe(TotalCost(CoreOrderSet), CoreBucket)
        /\ RLe(TotalCost(StockOrders), SatelliteBucket)
        /\ RLe(TotalCost(StockOrders), R(4000, 1))
        /\ RLe(TotalCost(1..Len(orders)), R(TOTAL_CAPITAL, 1))
        /\ Cardinality(OrderedRows) = Cardinality(StockOrders)
        /\ Cardinality(StockOrders) =
               IF Cardinality(BuyRows) < 5 THEN Cardinality(BuyRows) ELSE 5
        /\ \A k \in OrderedRows, j \in BuyRows \ OrderedRows :
               RLe(results[j].Upside, results[k].Upside)

\* three ETF orders beside five stock orders picked from six candidates
C28_Witness ==
    /\ JustOrdered
    /\ Cardinality(CoreOrderSet) = 3
    /\ Cardinality(StockOrders) = 5
    /\ Cardinality(BuyRows) = 6
    /\ \E k \in StockOrders : RLt(Zero, CostOf(orders[k]))

\* five orders of generate_orders picked from six BUY rows
C28_EngineWitness ==
    /\ JustOrdered
    /\ lastRun.copy = "engine"
    /\ Cardinality(StockOrders) = 5
    /\ Cardinality(BuyRows) = 6

\* the holdings rows of a ticker, in the table before and after a step
HeldRows(table, ticker) == {k \in 1..Len(table) : table[k].ticker = ticker}
\* the row of a ticker held in exactly one row
HeldRow(table, ticker) == table[CHOOSE k \in HeldRows(table, ticker) : TRUE]
\* the call a step of execute_trade was made with: the history row it wrote
Traded == Len(history') = Len(history) + 1
Call == history'[Len(history')]
\* every ticker held has shares > 0 and one row
SoundHoldings ==
    \A k \in 1..Len(holdings) :
        /\ RLt(Zero, holdings[k].shares)
        /\ Cardinality(HeldRows(holdings, holdings[k].ticker)) = 1
\* what one call of execute_trade does to the row of its ticker
TradeEffect ==
    LET t == Call.ticker
        was == HeldRow(holdings, t)
        now == HeldRow(holdings', t)
        held == HeldRows(holdings, t) # {}
        held_after == HeldRows(holdings', t) # {}
    IN  /\ Call.action = "BUY" /\ held =>
               /\ held_after
               /\ now.shares = RAdd(was.shares, Call.shares)
               /\ RMul(now.avg_cost, now.shares) =
                      RAdd(RMul(was.avg_cost, was.shares), RMul(Call.price, Call.shares))
        /\ Call.action = "BUY" /\ ~held =>
               /\ held_after
               /\ now.shares = Call.shares
               /\ now.avg_cost = Call.price
        /\ Call.action = "SELL" /\ held =>
               IF RLe(RSub(was.shares, Call.shares), Zero)
               THEN ~held_after
               ELSE /\ held_after
                    /\ now.shares = RSub(was.shares, Call.shares)
                    /\ now.avg_cost = was.avg_cost
        /\ Call.action = "SELL" /\ ~held => ~held_after
        /\ \A other \in TradeTickers \ {t} :
               /\ HeldRows(holdings', other) # {} <=> HeldRows(holdings, other) # {}
               /\ HeldRows(holdings, other) # {} =>
                      HeldRow(holdings', other) = HeldRow(holdings, other)

\* C29: after any sequence of execute_trade calls with positive share
\* counts every ticker in holdings has shares > 0 and exactly one row; a BUY
\* of a held ticker adds the shares and sets avg_cost to the share-weighted
\* average of the old cost and the trade price, a BUY of an unheld ticker
\* inserts it at the trade price, a SELL leaves avg_cost unchanged and
\* removes the ticker when the remaining shares are <= 0
C29_HoldingsSound ==
    /\ []SoundHoldings
    /\ [][Traded => TradeEffect]_vars

\* a ticker bought twice at different prices and then sold in part, beside
\* a ticker sold out
C29_Witness ==
    /\ Len(history) = MaxTrades
    /\ history[1].action = "BUY" /\ history[2].action = "BUY"
    /\ history[3].action = "SELL"
    /\ history[1].ticker = history[2].ticker /\ history[2].ticker = history[3].ticker
    /\ history[1].price # history[2].price
    /\ HeldRows(holdings, history[3].ticker) # {}
    /\ HeldRow(holdings, history[3].ticker).avg_cost \notin TradePrices

\* a sale that emptied the position
C29_SoldOut ==
    /\ Len(history) >= 2
    /\ history[Len(history)].action = "SELL"
    /\ history[1].action = "BUY"
    /\ history[1].ticker = history[Len(history)].ticker
    /\ HeldRows(holdings, history[1].ticker) = {}

\* the shares of a ticker in a holdings table, zero when it is not held
SharesHeld(table, ticker) ==
    IF HeldRows(table, ticker) = {} THEN Zero ELSE HeldRow(table, ticker).shares

\* C30: every execute_trade call appends exactly one history row carrying
\* the requested ticker, action, shares and price, and the history records
\* only trades that changed holdings by the recorded quantity: a SELL of a
\* ticker that is not held, or of more shares than are held, is not logged
\* as a sale of the full requested quantity
C30_HistoryRecordsEffectiveTrades ==
    [][history' # history =>
          /\ Traded
          /\ SubSeq(history', 1, Len(history)) = history
          /\ Call.action = "BUY" =>
                 SharesHeld(holdings', Call.ticker) =
                     RAdd(SharesHeld(holdings, Call.ticker), Call.shares)
          /\ Call.action = "SELL" =>
                 SharesHeld(holdings', Call.ticker) =
                     RSub(SharesHeld(holdings, Call.ticker), Call.shares)]_vars

=============================================================================
